---- MODULE Spec2Model ----
(***************************************************************************)
(* Model of the liquidity-trading backtester: the limit order book          *)
(* (src/src/backtest/book.py), the event loop, the matching engine and the  *)
(* accountant (src/src/backtest/backtest.py) and the agent's fee            *)
(* (src/src/backtest/agent.py).                                             *)
(*                                                                          *)
(* Instants are integers (1, 2, ...), a timedelta is an integer, None is 0. *)
(* Prices are integers (ticks), so price * quantity is exact.  An Order is  *)
(* a record of its fields; asset_name is the same in every order of a run   *)
(* and is left out.  str(order) is the tuple of the five fields it prints.  *)
(***************************************************************************)
EXTENDS Integers, Sequences, FiniteSets, TLC

\* ------------------------------------------------------------------ bounds
MaxHist == 3
MaxLag == 1
MaxLatency == 1
MaxPrice == 2
MaxQty == 2
MaxAdds == 1
MaxCancels == 1
OrderCost == 1
InitialMoney == 5
InitialStock == 1

\* ------------------------------------------------------- program constants
None == 0
DatetimeMax == 9999
NO_ORDER == 0
HISTORICAL == 1
NETWORK2BIST == 2
BIST2NETWORK == 3
FirstAgentId == 101

Prices == 1..MaxPrice
Quantities == 1..MaxQty
Sides == {"B", "S"}

\* ----------------------------------------------------------------- helpers
Min(a, b) == IF a <= b THEN a ELSE b

Keys(d) == DOMAIN d

Get(d, k, default) == IF k \in DOMAIN d THEN d[k] ELSE default

Put(d, k, v) == [x \in (DOMAIN d) \cup {k} |-> IF x = k THEN v ELSE d[x]]

Pop(d, k) == [x \in (DOMAIN d) \ {k} |-> d[x]]

EmptyDict == [x \in {} |-> 0]

RemoveAt(s, i) == [j \in 1..(Len(s) - 1) |-> IF j < i THEN s[j] ELSE s[j + 1]]

Order(nt, bt, mt, sd, px, qty, oid) ==
    [network_time |-> nt, bist_time |-> bt, msg_type |-> mt, side |-> sd,
     price |-> px, quantity |-> qty, order_id |-> oid]

NoOrder == Order(None, None, "-", "-", 0, 0, 0)

\* Order.__str__
Str(order) ==
    <<order.msg_type, order.side, order.price, order.quantity, order.order_id>>

\* ------------------------------------------------------- LimitOrderBook
PriceTable(mid, bb, ba, lb, la) ==
    [mid_price2 |-> mid, best_bid_price |-> bb, best_ask_price |-> ba,
     last_bid_price |-> lb, last_ask_price |-> la]

\* LimitOrderBook.__init__
NewBook ==
    [orders |-> EmptyDict, bid_prices |-> EmptyDict, ask_prices |-> EmptyDict,
     last_timestamp |-> None, mold_package |-> <<>>, lob |-> <<>>,
     price_table |-> PriceTable(None, None, None, None, None)]

RECURSIVE SortedItems(_, _)
\* sorted(d.items(), key=lambda x: x[0], reverse=rev): the least key first,
\* or the greatest first when rev
SortedItems(d, rev) ==
    IF DOMAIN d = {} THEN <<>>
    ELSE LET k == IF rev
                  THEN CHOOSE x \in DOMAIN d : \A y \in DOMAIN d : y <= x
                  ELSE CHOOSE x \in DOMAIN d : \A y \in DOMAIN d : x <= y
         IN  <<(<<k, d[k]>>)>> \o SortedItems(Pop(d, k), rev)

sorted_bids(b) == SortedItems(b.bid_prices, FALSE)

\* Asks sorted like the bids, the least price first
sorted_asks_ascending(b) == SortedItems(b.ask_prices, FALSE)

sorted_asks(b) == SortedItems(b.ask_prices, TRUE)

\* Subtracting a quantity from a price level, dropping the level when the
\* quantity equals it (the if/else of the delete and execute handlers)
\* A handler that leaves an emptied level in the map
SubLevelKeepsZero(prices, px, qty) ==
    [prices EXCEPT ![px] = prices[px] - qty]

SubLevel(prices, px, qty) ==
    IF qty = prices[px] THEN Pop(prices, px)
    ELSE [prices EXCEPT ![px] = prices[px] - qty]

process_add_order(b, order) ==
    LET b1 == [b EXCEPT !.orders = Put(b.orders, order.order_id, order)]
        b2 == IF order.side = "B"
              THEN [b1 EXCEPT !.bid_prices =
                       Put(b1.bid_prices, order.price,
                           Get(b1.bid_prices, order.price, 0) + order.quantity)]
              ELSE [b1 EXCEPT !.ask_prices =
                       Put(b1.ask_prices, order.price,
                           Get(b1.ask_prices, order.price, 0) + order.quantity)]
    IN  [b2 EXCEPT !.mold_package = Append(b2.mold_package, Str(order))]

\* A delete handler that takes the quantity the delete message carries off
\* the level
process_delete_order_keeps_quantity(b, order) ==
    LET deleted_order == b.orders[order.order_id]
        b1 == [b EXCEPT !.orders = Pop(b.orders, order.order_id)]
        o1 == [order EXCEPT !.price = deleted_order.price]
        b2 == IF o1.side = "B"
              THEN [b1 EXCEPT !.bid_prices =
                       SubLevel(b1.bid_prices, o1.price, o1.quantity)]
              ELSE [b1 EXCEPT !.ask_prices =
                       SubLevel(b1.ask_prices, o1.price, o1.quantity)]
    IN  [b2 EXCEPT !.mold_package = Append(b2.mold_package, Str(o1))]

process_delete_order(b, order) ==
    LET deleted_order == b.orders[order.order_id]
        b1 == [b EXCEPT !.orders = Pop(b.orders, order.order_id)]
        o1 == [order EXCEPT !.quantity = deleted_order.quantity,
                            !.price = deleted_order.price]
        b2 == IF o1.side = "B"
              THEN [b1 EXCEPT !.bid_prices =
                       SubLevel(b1.bid_prices, o1.price, o1.quantity)]
              ELSE [b1 EXCEPT !.ask_prices =
                       SubLevel(b1.ask_prices, o1.price, o1.quantity)]
    IN  [b2 EXCEPT !.mold_package = Append(b2.mold_package, Str(o1))]

\* An execute that leaves an order it has used up in the orders map
process_execute_order_keeps_filled(b, order) ==
    LET target0 == b.orders[order.order_id]
        target_order == [target0 EXCEPT !.quantity = target0.quantity - order.quantity]
        o1 == [order EXCEPT !.price = target_order.price]
        b1 == [b EXCEPT !.orders = Put(b.orders, target_order.order_id, target_order)]
        b2 == IF o1.side = "B"
              THEN [b1 EXCEPT !.bid_prices =
                       SubLevel(b1.bid_prices, o1.price, o1.quantity),
                              !.price_table.last_bid_price = o1.price]
              ELSE [b1 EXCEPT !.ask_prices =
                       SubLevel(b1.ask_prices, o1.price, o1.quantity),
                              !.price_table.last_ask_price = o1.price]
    IN  [b2 EXCEPT !.mold_package = Append(b2.mold_package, Str(o1))]

process_execute_order(b, order) ==
    LET target0 == b.orders[order.order_id]
        target_order == [target0 EXCEPT !.quantity = target0.quantity - order.quantity]
        o1 == [order EXCEPT !.price = target_order.price]
        b1 == IF target_order.quantity = 0
              THEN [b EXCEPT !.orders = Pop(b.orders, target_order.order_id)]
              ELSE [b EXCEPT !.orders = Put(b.orders, target_order.order_id, target_order)]
        b2 == IF o1.side = "B"
              THEN [b1 EXCEPT !.bid_prices =
                       SubLevel(b1.bid_prices, o1.price, o1.quantity),
                              !.price_table.last_bid_price = o1.price]
              ELSE [b1 EXCEPT !.ask_prices =
                       SubLevel(b1.ask_prices, o1.price, o1.quantity),
                              !.price_table.last_ask_price = o1.price]
    IN  [b2 EXCEPT !.mold_package = Append(b2.mold_package, Str(o1))]

LOBSnapshot(ts, bids, asks, mold) ==
    [timestamp |-> ts, bids |-> bids, asks |-> asks, mold_package |-> mold]

\* A create_snapshot that does not start a new mold package
create_snapshot_keeps_mold(b) ==
    IF b.mold_package = <<>> THEN b
    ELSE [b EXCEPT !.lob = Append(b.lob,
                      LOBSnapshot(b.last_timestamp, sorted_bids(b), sorted_asks(b),
                                  b.mold_package))]

create_snapshot(b) ==
    IF b.mold_package = <<>> THEN b
    ELSE [b EXCEPT !.lob = Append(b.lob,
                      LOBSnapshot(b.last_timestamp, sorted_bids(b), sorted_asks(b),
                                  b.mold_package)),
                   !.mold_package = <<>>]

\* An update_price_table that also moves last_bid to the best bid
update_price_table_moves_last(b) ==
    LET bids == sorted_bids(b)
        asks == sorted_asks(b)
    IN  IF bids # <<>> /\ asks # <<>>
        THEN [b EXCEPT !.price_table.best_bid_price = bids[Len(bids)][1],
                       !.price_table.best_ask_price = asks[Len(asks)][1],
                       !.price_table.mid_price2 = bids[Len(bids)][1] + asks[Len(asks)][1],
                       !.price_table.last_bid_price = bids[Len(bids)][1]]
        ELSE b

\* mid_price2 is the mid price in half ticks: 2 * (best_bid + best_ask) / 2
update_price_table(b) ==
    LET bids == sorted_bids(b)
        asks == sorted_asks(b)
    IN  IF bids # <<>> /\ asks # <<>>
        THEN [b EXCEPT !.price_table.best_bid_price = bids[Len(bids)][1],
                       !.price_table.best_ask_price = asks[Len(asks)][1],
                       !.price_table.mid_price2 = bids[Len(bids)][1] + asks[Len(asks)][1]]
        ELSE b

\* A process that creates the snapshot and does not report it
process_reports_none(b, order) ==
    LET snap == b.last_timestamp # None /\ b.last_timestamp # order.network_time
        b1 == IF snap THEN create_snapshot(b) ELSE b
        b2 == [b1 EXCEPT !.last_timestamp = order.network_time]
        b3 == IF order.msg_type = "A" THEN process_add_order(b2, order)
              ELSE IF order.msg_type = "D" THEN process_delete_order(b2, order)
              ELSE process_execute_order(b2, order)
    IN  [book |-> b3, is_snapshot_created |-> FALSE]

\* A process that takes the snapshot after it has applied the message
process_snapshots_after(b, order) ==
    LET snap == b.last_timestamp # None /\ b.last_timestamp # order.network_time
        b2 == [b EXCEPT !.last_timestamp = order.network_time]
        b3 == IF order.msg_type = "A" THEN process_add_order(b2, order)
              ELSE IF order.msg_type = "D" THEN process_delete_order(b2, order)
              ELSE process_execute_order(b2, order)
    IN  [book |-> IF snap THEN create_snapshot(b3) ELSE b3,
         is_snapshot_created |-> snap]

\* LimitOrderBook.process: the book after the message, and whether a snapshot
\* was asked for
process(b, order) ==
    LET snap == b.last_timestamp # None /\ b.last_timestamp # order.network_time
        b1 == IF snap THEN create_snapshot(b) ELSE b
        b2 == [b1 EXCEPT !.last_timestamp = order.network_time]
        b3 == IF order.msg_type = "A" THEN process_add_order(b2, order)
              ELSE IF order.msg_type = "D" THEN process_delete_order(b2, order)
              ELSE process_execute_order(b2, order)
    IN  [book |-> b3, is_snapshot_created |-> snap]

\* --------------------------------------------- test_orders (an ordered dict)
\* test_orders is a dict in insertion order: the sequence of the resting test
\* orders, each under its order_id
IndexOf(t, id) == CHOOSE i \in 1..Len(t) : t[i].order_id = id

HasKey(t, id) == \E i \in 1..Len(t) : t[i].order_id = id

Lookup(t, id) == t[IndexOf(t, id)]

DictPop(t, id) == IF HasKey(t, id) THEN RemoveAt(t, IndexOf(t, id)) ELSE t

DictSet(t, order) ==
    IF HasKey(t, order.order_id)
    THEN [t EXCEPT ![IndexOf(t, order.order_id)] = order]
    ELSE Append(t, order)

KeySet(t) == {t[i].order_id : i \in 1..Len(t)}

RECURSIVE SortedByPrice(_, _)
\* sorted(items, key=lambda x: x[1].price, reverse=rev): a stable sort, which
\* keeps the dict order among orders of equal price, also when reversed
SortedByPrice(items, rev) ==
    IF items = <<>> THEN <<>>
    ELSE LET first(i) == \A j \in 1..Len(items) :
                            /\ (rev => items[j].price <= items[i].price)
                            /\ (~rev => items[i].price <= items[j].price)
                            /\ (items[j].price = items[i].price => i <= j)
             i == CHOOSE k \in 1..Len(items) : first(k)
         IN  <<items[i]>> \o SortedByPrice(RemoveAt(items, i), rev)

\* ------------------------------------------------------- matching engine
\* The fields of a Backtest that the sweeps and the accountant read or write;
\* raised is set when the handler raises (KeyError, ValueError) and the run
\* aborts
Backtest(b, t, f, tl, q, ts, lat, bal) ==
    [book |-> b, test_orders |-> t, finished_orders |-> f, test_timeline |-> tl,
     bist2network_queue |-> q, last_timestamp |-> ts, latency |-> lat,
     balance |-> bal, raised |-> FALSE]

RECURSIVE single_bid_loop_limit_price(_, _, _, _, _, _)
\* A bid sweep that stamps its executes with the bid's limit, as the ask sweep does
single_bid_loop_limit_price(self, bid, prices, px, qty, queue) ==
    IF ~(prices # <<>> /\ bid.quantity # 0) \/ bid.quantity <= 0
    THEN [bid |-> bid, prices |-> prices, px |-> px, qty |-> qty,
          is_stopped |-> FALSE, queue |-> queue]
    ELSE LET popped == qty = 0
             px1 == IF popped THEN prices[Len(prices)][1] ELSE px
             qty1 == IF popped THEN prices[Len(prices)][2] ELSE qty
             prices1 == IF popped THEN SubSeq(prices, 1, Len(prices) - 1) ELSE prices
         IN  IF bid.price < px1
             THEN [bid |-> bid, prices |-> prices1, px |-> px1, qty |-> qty1,
                   is_stopped |-> TRUE, queue |-> queue]
             ELSE LET exec_qty == Min(bid.quantity, qty1)
                  IN  single_bid_loop_limit_price(self,
                          [bid EXCEPT !.quantity = bid.quantity - exec_qty],
                          prices1, px1, qty1 - exec_qty,
                          Append(queue,
                                 Order(self.last_timestamp + self.latency,
                                       self.last_timestamp, "E", "B", bid.price,
                                       exec_qty, bid.order_id)))

RECURSIVE single_bid_loop(_, _, _, _, _, _)
\* The while loop of _run_single_bid: bid is the deep copy, (px, qty) the
\* level in hand, queue the bist2network queue
single_bid_loop(self, bid, prices, px, qty, queue) ==
    IF ~(prices # <<>> /\ bid.quantity # 0) \/ bid.quantity <= 0
    THEN [bid |-> bid, prices |-> prices, px |-> px, qty |-> qty,
          is_stopped |-> FALSE, queue |-> queue]
    ELSE LET popped == qty = 0
             px1 == IF popped THEN prices[Len(prices)][1] ELSE px
             qty1 == IF popped THEN prices[Len(prices)][2] ELSE qty
             prices1 == IF popped THEN SubSeq(prices, 1, Len(prices) - 1) ELSE prices
         IN  IF bid.price < px1
             THEN [bid |-> bid, prices |-> prices1, px |-> px1, qty |-> qty1,
                   is_stopped |-> TRUE, queue |-> queue]
             ELSE LET exec_qty == Min(bid.quantity, qty1)
                  IN  single_bid_loop(self,
                          [bid EXCEPT !.quantity = bid.quantity - exec_qty],
                          prices1, px1, qty1 - exec_qty,
                          Append(queue,
                                 Order(self.last_timestamp + self.latency,
                                       self.last_timestamp, "E", "B", px1,
                                       exec_qty, bid.order_id)))

run_single_bid(self, bid, prices) ==
    LET r == single_bid_loop(self, bid, prices, 0, 0, self.bist2network_queue)
        prices1 == IF r.qty > 0 THEN Append(r.prices, <<r.px, r.qty>>) ELSE r.prices
        finished == IF r.bid.quantity = 0
                    THEN self.finished_orders \cup {bid.order_id}
                    ELSE self.finished_orders
    IN  [is_stopped |-> r.is_stopped, prices |-> prices1,
         self |-> [self EXCEPT !.bist2network_queue = r.queue,
                               !.finished_orders = finished]]

RECURSIVE single_ask_loop(_, _, _, _, _, _)
\* The while loop of _run_single_ask
single_ask_loop(self, ask, prices, px, qty, queue) ==
    IF ~(prices # <<>> /\ ask.quantity # 0) \/ ask.quantity <= 0
    THEN [ask |-> ask, prices |-> prices, px |-> px, qty |-> qty,
          is_stopped |-> FALSE, queue |-> queue]
    ELSE LET popped == qty = 0
             px1 == IF popped THEN prices[Len(prices)][1] ELSE px
             qty1 == IF popped THEN prices[Len(prices)][2] ELSE qty
             prices1 == IF popped THEN SubSeq(prices, 1, Len(prices) - 1) ELSE prices
         IN  IF ask.price > px1
             THEN [ask |-> ask, prices |-> prices1, px |-> px1, qty |-> qty1,
                   is_stopped |-> TRUE, queue |-> queue]
             ELSE LET exec_qty == Min(ask.quantity, qty1)
                  IN  single_ask_loop(self,
                          [ask EXCEPT !.quantity = ask.quantity - exec_qty],
                          prices1, px1, qty1 - exec_qty,
                          Append(queue,
                                 Order(self.last_timestamp + self.latency,
                                       self.last_timestamp, "E", "S", ask.price,
                                       exec_qty, ask.order_id)))

run_single_ask(self, ask, prices) ==
    LET r == single_ask_loop(self, ask, prices, 0, 0, self.bist2network_queue)
        prices1 == IF r.qty > 0 THEN Append(r.prices, <<r.px, r.qty>>) ELSE r.prices
        finished == IF r.ask.quantity = 0
                    THEN self.finished_orders \cup {ask.order_id}
                    ELSE self.finished_orders
    IN  [is_stopped |-> r.is_stopped, prices |-> prices1,
         self |-> [self EXCEPT !.bist2network_queue = r.queue,
                               !.finished_orders = finished]]

\* The test orders of one side that no sweep has finished, in dict order
LiveOfSide(self, side) ==
    SelectSeq(self.test_orders,
              LAMBDA o : o.side = side /\ o.order_id \notin self.finished_orders)

RECURSIVE bids_loop_fresh_copy(_, _, _)
\* A bid sweep that offers every bid the asks as the book displays them
bids_loop_fresh_copy(self, bids, prices) ==
    IF bids = <<>> \/ prices = <<>> THEN self
    ELSE LET r == run_single_bid(self, Head(bids), prices)
         IN  IF r.is_stopped THEN r.self
             ELSE bids_loop_fresh_copy(r.self, Tail(bids), prices)

RECURSIVE bids_loop(_, _, _)
\* while bids and prices: popitem(last=False), _run_single_bid, break if stopped
bids_loop(self, bids, prices) ==
    IF bids = <<>> \/ prices = <<>> THEN self
    ELSE LET r == run_single_bid(self, Head(bids), prices)
         IN  IF r.is_stopped THEN r.self
             ELSE bids_loop(r.self, Tail(bids), r.prices)

\* A bid sweep that takes the bids in ascending order of their limit
run_bids_ascending(self) ==
    bids_loop(self, SortedByPrice(LiveOfSide(self, "B"), FALSE), sorted_asks(self.book))

run_bids(self) ==
    bids_loop(self, SortedByPrice(LiveOfSide(self, "B"), TRUE), sorted_asks(self.book))

RECURSIVE asks_loop(_, _, _)
\* while asks and prices: popitem(last=False), _run_single_ask, break if stopped
asks_loop(self, asks, prices) ==
    IF asks = <<>> \/ prices = <<>> THEN self
    ELSE LET r == run_single_ask(self, Head(asks), prices)
         IN  IF r.is_stopped THEN r.self
             ELSE asks_loop(r.self, Tail(asks), r.prices)

\* The side the ask sweep selects on, as written at backtest.py:292
AskSweepSide == "A"

run_asks(self) ==
    asks_loop(self, SortedByPrice(LiveOfSide(self, AskSweepSide), FALSE),
              sorted_bids(self.book))

RECURSIVE ApplyExecutes(_, _)
\* The ask map after the executes msgs are taken from its levels
ApplyExecutes(asks, msgs) ==
    IF msgs = <<>> THEN asks
    ELSE ApplyExecutes(
             IF Head(msgs).side = "B" /\ Head(msgs).price \in DOMAIN asks
             THEN SubLevel(asks, Head(msgs).price, Head(msgs).quantity)
             ELSE asks,
             Tail(msgs))

\* A matching engine that applies its own executes to the public book
run_market_maker_on_book(self) ==
    LET post == run_asks(run_bids(self))
        msgs == SubSeq(post.bist2network_queue, Len(self.bist2network_queue) + 1,
                       Len(post.bist2network_queue))
    IN  [post EXCEPT !.book.ask_prices = ApplyExecutes(self.book.ask_prices, msgs)]

run_market_maker(self) == run_asks(run_bids(self))

\* ------------------------------------------------------------ accountant
Balance(money, stock) ==
    [money |-> money, stock |-> stock, held_money |-> 0, held_stock |-> 0]

\* A cancel that forwards the request's own price and quantity
execute_cancel_keeps_fields(self, order) ==
    IF ~HasKey(self.test_orders, order.order_id) THEN self
    ELSE LET d == [order EXCEPT !.msg_type = "D",
                                !.network_time = order.bist_time + self.latency]
         IN  [self EXCEPT !.test_orders = DictPop(self.test_orders, order.order_id),
                          !.bist2network_queue = Append(self.bist2network_queue, d)]

\* A cancel that puts its delete message into bist2network twice
execute_cancel_enqueues_twice(self, order) ==
    IF ~HasKey(self.test_orders, order.order_id) THEN self
    ELSE LET cancelled_order == Lookup(self.test_orders, order.order_id)
             d == [order EXCEPT !.msg_type = "D",
                                !.network_time = order.bist_time + self.latency,
                                !.quantity = cancelled_order.quantity,
                                !.price = cancelled_order.price]
         IN  [self EXCEPT !.test_orders = DictPop(self.test_orders, order.order_id),
                          !.bist2network_queue = self.bist2network_queue \o <<d, d>>]

\* A cancel that answers with a delete even when the order is not there
execute_cancel_answers_unknown(self, order) ==
    LET d == [order EXCEPT !.msg_type = "D",
                           !.network_time = order.bist_time + self.latency]
    IN  IF ~HasKey(self.test_orders, order.order_id)
        THEN [self EXCEPT !.bist2network_queue = Append(self.bist2network_queue, d)]
        ELSE LET cancelled_order == Lookup(self.test_orders, order.order_id)
             IN  [self EXCEPT
                     !.test_orders = DictPop(self.test_orders, order.order_id),
                     !.bist2network_queue =
                         Append(self.bist2network_queue,
                                [d EXCEPT !.quantity = cancelled_order.quantity,
                                          !.price = cancelled_order.price])]

\* A cancel whose delete keeps the network_time of the request
execute_cancel_keeps_time(self, order) ==
    IF ~HasKey(self.test_orders, order.order_id) THEN self
    ELSE LET cancelled_order == Lookup(self.test_orders, order.order_id)
             d == [order EXCEPT !.msg_type = "D",
                                !.quantity = cancelled_order.quantity,
                                !.price = cancelled_order.price]
         IN  [self EXCEPT !.test_orders = DictPop(self.test_orders, order.order_id),
                          !.bist2network_queue = Append(self.bist2network_queue, d)]

execute_cancel(self, order) ==
    IF ~HasKey(self.test_orders, order.order_id) THEN self
    ELSE LET cancelled_order == Lookup(self.test_orders, order.order_id)
             d == [order EXCEPT !.msg_type = "D",
                                !.network_time = order.bist_time + self.latency,
                                !.quantity = cancelled_order.quantity,
                                !.price = cancelled_order.price]
         IN  [self EXCEPT !.test_orders = DictPop(self.test_orders, order.order_id),
                          !.bist2network_queue = Append(self.bist2network_queue, d)]

\* An add that reserves money or stock without looking at what is free
execute_add_unchecked(self, order) ==
    LET total_money == order.price * order.quantity
    IN  IF order.side = "B"
        THEN [self EXCEPT !.balance.money = self.balance.money - total_money,
                          !.balance.held_money = self.balance.held_money + total_money,
                          !.test_orders = DictSet(self.test_orders, order)]
        ELSE [self EXCEPT !.balance.stock = self.balance.stock - order.quantity,
                          !.balance.held_stock = self.balance.held_stock + order.quantity,
                          !.test_orders = DictSet(self.test_orders, order)]

\* An add that stores the order in test_orders even when it reserves nothing
execute_add_stores_dropped(self, order) ==
    LET total_money == order.price * order.quantity
    IN  IF order.side = "B"
        THEN IF total_money > self.balance.money
             THEN [self EXCEPT !.test_orders = DictSet(self.test_orders, order)]
             ELSE [self EXCEPT !.balance.money = self.balance.money - total_money,
                               !.balance.held_money = self.balance.held_money + total_money,
                               !.test_orders = DictSet(self.test_orders, order)]
        ELSE IF order.quantity > self.balance.stock
             THEN [self EXCEPT !.test_orders = DictSet(self.test_orders, order)]
             ELSE [self EXCEPT !.balance.stock = self.balance.stock - order.quantity,
                               !.balance.held_stock = self.balance.held_stock + order.quantity,
                               !.test_orders = DictSet(self.test_orders, order)]

\* An add that takes the money or stock of an admitted order without holding it
execute_add_spends(self, order) ==
    LET total_money == order.price * order.quantity
    IN  IF order.side = "B"
        THEN IF total_money > self.balance.money THEN self
             ELSE [self EXCEPT !.balance.money = self.balance.money - total_money,
                               !.test_orders = DictSet(self.test_orders, order)]
        ELSE IF order.quantity > self.balance.stock THEN self
             ELSE [self EXCEPT !.balance.stock = self.balance.stock - order.quantity,
                               !.test_orders = DictSet(self.test_orders, order)]

execute_add(self, order) ==
    LET total_money == order.price * order.quantity
    IN  IF order.side = "B"
        THEN IF total_money > self.balance.money THEN self
             ELSE [self EXCEPT !.balance.money = self.balance.money - total_money,
                               !.balance.held_money = self.balance.held_money + total_money,
                               !.test_orders = DictSet(self.test_orders, order)]
        ELSE IF order.quantity > self.balance.stock THEN self
             ELSE [self EXCEPT !.balance.stock = self.balance.stock - order.quantity,
                               !.balance.held_stock = self.balance.held_stock + order.quantity,
                               !.test_orders = DictSet(self.test_orders, order)]

\* A delete that gives the money or stock back and leaves it held as well
execute_delete_keeps_hold(self, order) ==
    LET total_money == order.price * order.quantity
    IN  IF order.side = "B"
        THEN [self EXCEPT !.balance.money = self.balance.money + total_money]
        ELSE [self EXCEPT !.balance.stock = self.balance.stock + order.quantity]

execute_delete(self, order) ==
    LET total_money == order.price * order.quantity
    IN  IF order.side = "B"
        THEN [self EXCEPT !.balance.money = self.balance.money + total_money,
                          !.balance.held_money = self.balance.held_money - total_money]
        ELSE [self EXCEPT !.balance.stock = self.balance.stock + order.quantity,
                          !.balance.held_stock = self.balance.held_stock - order.quantity]

\* The update of the test order's quantity, the same in both branches
\* A fully executed order that is marked finished and left in test_orders
RetireKeepsOrder(self, order, executed_order, executed_qty) ==
    IF executed_order.quantity = executed_qty
    THEN [self EXCEPT !.finished_orders = self.finished_orders \cup {order.order_id}]
    ELSE [self EXCEPT !.test_orders =
             DictSet(self.test_orders,
                     [executed_order EXCEPT !.quantity =
                         executed_order.quantity - executed_qty])]

Retire(self, order, executed_order, executed_qty) ==
    IF executed_order.quantity = executed_qty
    THEN [self EXCEPT !.finished_orders = self.finished_orders \cup {order.order_id},
                      !.test_orders = DictPop(self.test_orders, order.order_id)]
    ELSE [self EXCEPT !.test_orders =
             DictSet(self.test_orders,
                     [executed_order EXCEPT !.quantity =
                         executed_order.quantity - executed_qty])]

\* An execute of a bid that takes the cash from the free money although the
\* hold already covers it
execute_execute_charges_twice(self, order) ==
    IF ~HasKey(self.test_orders, order.order_id)
    THEN [self EXCEPT !.raised = TRUE]
    ELSE LET executed_order == Lookup(self.test_orders, order.order_id)
             executed_qty == Min(executed_order.quantity, order.quantity)
             total_money == order.price * executed_qty
             expected_money == executed_order.price * executed_qty
         IN  IF order.side = "B"
             THEN Retire([self EXCEPT
                             !.balance.held_money = self.balance.held_money - expected_money,
                             !.balance.stock = self.balance.stock + executed_qty,
                             !.balance.money = self.balance.money - total_money],
                         order, executed_order, executed_qty)
             ELSE Retire([self EXCEPT
                             !.balance.money = self.balance.money + total_money,
                             !.balance.held_stock = self.balance.held_stock - executed_qty],
                         order, executed_order, executed_qty)

\* An execute of a bid that does not give back the difference between the
\* bid's limit and the level's price
execute_execute_keeps_difference(self, order) ==
    IF ~HasKey(self.test_orders, order.order_id)
    THEN [self EXCEPT !.raised = TRUE]
    ELSE LET executed_order == Lookup(self.test_orders, order.order_id)
             executed_qty == Min(executed_order.quantity, order.quantity)
             total_money == order.price * executed_qty
             expected_money == executed_order.price * executed_qty
         IN  IF order.side = "B"
             THEN Retire([self EXCEPT
                             !.balance.held_money = self.balance.held_money - expected_money,
                             !.balance.stock = self.balance.stock + executed_qty],
                         order, executed_order, executed_qty)
             ELSE Retire([self EXCEPT
                             !.balance.money = self.balance.money + total_money,
                             !.balance.held_stock = self.balance.held_stock - executed_qty],
                         order, executed_order, executed_qty)

\* An execute handler that lets an execute of an unknown order pass
execute_execute_skips_unknown(self, order) ==
    IF ~HasKey(self.test_orders, order.order_id)
    THEN self
    ELSE LET executed_order == Lookup(self.test_orders, order.order_id)
             executed_qty == Min(executed_order.quantity, order.quantity)
             total_money == order.price * executed_qty
             expected_money == executed_order.price * executed_qty
         IN  IF order.side = "B"
             THEN Retire([self EXCEPT
                             !.balance.held_money = self.balance.held_money - expected_money,
                             !.balance.stock = self.balance.stock + executed_qty,
                             !.balance.money = self.balance.money + expected_money - total_money],
                         order, executed_order, executed_qty)
             ELSE Retire([self EXCEPT
                             !.balance.money = self.balance.money + total_money,
                             !.balance.held_stock = self.balance.held_stock - executed_qty],
                         order, executed_order, executed_qty)

\* An execute that settles the message's whole quantity, whatever the order
\* has left
execute_execute_whole_message(self, order) ==
    IF ~HasKey(self.test_orders, order.order_id)
    THEN [self EXCEPT !.raised = TRUE]
    ELSE LET executed_order == Lookup(self.test_orders, order.order_id)
             executed_qty == order.quantity
             total_money == order.price * executed_qty
             expected_money == executed_order.price * executed_qty
         IN  IF order.side = "B"
             THEN Retire([self EXCEPT
                             !.balance.held_money = self.balance.held_money - expected_money,
                             !.balance.stock = self.balance.stock + executed_qty,
                             !.balance.money = self.balance.money + expected_money - total_money],
                         order, executed_order, executed_qty)
             ELSE Retire([self EXCEPT
                             !.balance.money = self.balance.money + total_money,
                             !.balance.held_stock = self.balance.held_stock - executed_qty],
                         order, executed_order, executed_qty)

execute_execute(self, order) ==
    IF ~HasKey(self.test_orders, order.order_id)
    THEN [self EXCEPT !.raised = TRUE]
    ELSE LET executed_order == Lookup(self.test_orders, order.order_id)
             executed_qty == Min(executed_order.quantity, order.quantity)
             total_money == order.price * executed_qty
             expected_money == executed_order.price * executed_qty
         IN  IF order.side = "B"
             THEN Retire([self EXCEPT
                             !.balance.held_money = self.balance.held_money - expected_money,
                             !.balance.stock = self.balance.stock + executed_qty,
                             !.balance.money = self.balance.money + expected_money - total_money],
                         order, executed_order, executed_qty)
             ELSE Retire([self EXCEPT
                             !.balance.money = self.balance.money + total_money,
                             !.balance.held_stock = self.balance.held_stock - executed_qty],
                         order, executed_order, executed_qty)

\* The handlers append the message's string form to the timeline first
Logged(self, order) ==
    [self EXCEPT !.test_timeline = Append(self.test_timeline, Str(order))]

\* A network2bist handler that drops a message of a type it does not take
execute_network2bist_drops(self, order) ==
    IF order.msg_type = "C" THEN execute_cancel(Logged(self, order), order)
    ELSE IF order.msg_type = "A" THEN execute_add(Logged(self, order), order)
    ELSE Logged(self, order)

execute_network2bist(self, order) ==
    IF order.msg_type = "C" THEN execute_cancel(Logged(self, order), order)
    ELSE IF order.msg_type = "A" THEN execute_add(Logged(self, order), order)
    ELSE [Logged(self, order) EXCEPT !.raised = TRUE]

execute_bist2network(self, order) ==
    IF order.msg_type = "D" THEN execute_delete(Logged(self, order), order)
    ELSE IF order.msg_type = "E" THEN execute_execute(Logged(self, order), order)
    ELSE [Logged(self, order) EXCEPT !.raised = TRUE]

\* ------------------------------------------------------------------ state
VARIABLES
    parser,              \* the history file: is_open, lines read, last line's
                         \* instant, and the most lines the file may hold
    hist_queue,
    network2bist_queue,
    bist2network_queue,
    last_timestamp,      \* Backtest.last_timestamp
    book,                \* the LimitOrderBook
    test_orders,
    finished_orders,
    test_timeline,       \* the string forms of the agent-side messages handled
    balance,             \* agent.balance
    latency,
    agent,               \* the strategy's name and what it remembers: the sides
                         \* of the adds it sent, the number of its cancel
                         \* requests, the timestamps of the snapshots it was given
    pc,                  \* "run", "done" (run returned), "error" (run raised)
    orders_submitted,    \* history: orders returned by the strategy so far
    dispatched,          \* history: network_time of the last two dispatched messages
    sweep,               \* history: the Backtest before and after the last sweep
    processed,           \* history: the historical messages given to the book
    constructed          \* history: the last Order(...) call and its outcome

vars == <<parser, hist_queue, network2bist_queue, bist2network_queue,
          last_timestamp, book, test_orders, finished_orders, test_timeline,
          balance, latency,
          agent, pc, orders_submitted, dispatched, sweep, processed,
          constructed>>

NoSweep == [ran |-> FALSE]

NoConstruction == [called |-> FALSE]

\* Agent.__init__: the strategy's name and memory, and the three history lists
NewAgent(strategy) ==
    [strategy |-> strategy, sides |-> <<>>, cancels |-> 0, snapshots |-> <<>>,
     history |-> <<>>, balance_history |-> <<>>, price_history |-> <<>>]

\* Backtest.__init__ and Agent.__init__
Init ==
    /\ parser = [is_open |-> TRUE, lines |-> 0, last_time |-> None, limit |-> MaxHist]
    /\ hist_queue = <<>>
    /\ network2bist_queue = <<>>
    /\ bist2network_queue = <<>>
    /\ last_timestamp = None
    /\ book = NewBook
    /\ test_orders = <<>>
    /\ finished_orders = {}
    /\ test_timeline = <<>>
    /\ balance = Balance(InitialMoney, InitialStock)
    /\ latency \in 0..MaxLatency
    /\ agent = NewAgent("trader")
    /\ pc = "run"
    /\ orders_submitted = 0
    /\ dispatched = <<None, None>>
    /\ sweep = NoSweep
    /\ processed = <<>>
    /\ constructed = NoConstruction

Self ==
    Backtest(book, test_orders, finished_orders, test_timeline, bist2network_queue,
             last_timestamp, latency, balance)

\* ------------------------------------------------------------ history file
\* The lines the file can hold next: sorted by network_time, bist_time not
\* after network_time, an add with a fresh id, a delete or an execute of a
\* resting order on its side with a quantity the order still has.  The price
\* and quantity a delete carries and the price an execute carries are 0.
\* Runs of the dummy strategy are explored over histories whose quantities
\* start at 0, runs of a trading strategy over quantities from 1.
MinHistQty == IF agent.strategy = "dummy" THEN 0 ELSE 1

NextTimes ==
    IF parser.lines = 0 THEN {1} ELSE {parser.last_time, parser.last_time + 1}

\* The (network_time, bist_time) pairs the next line can carry
NextStamps ==
    {<<st[1], st[1] - st[2]>> : st \in {x \in NextTimes \X (0..MaxLag) : x[2] < x[1]}}

NextLines ==
    {Order(st[1], st[2], "A", sd, px, qty, parser.lines + 1) :
        st \in NextStamps, sd \in Sides, px \in Prices, qty \in MinHistQty..MaxQty} \cup
    {Order(st[1], st[2], "D", book.orders[id].side, 0, 0, id) :
        st \in NextStamps, id \in DOMAIN book.orders} \cup
    UNION {{Order(st[1], st[2], "E", book.orders[id].side, 0, qty, id) :
                st \in NextStamps, qty \in MinHistQty..book.orders[id].quantity} :
           id \in DOMAIN book.orders}

\* _read_historical_order: nothing when the queue holds an order or the file
\* is closed; else lines are read (unparseable ones skipped) until one parses
\* or the file ends, which closes it
ReadOutcomes ==
    IF hist_queue # <<>> \/ ~parser.is_open
    THEN {[parser |-> parser, hist_queue |-> hist_queue]}
    ELSE {[parser |-> [parser EXCEPT !.is_open = FALSE], hist_queue |-> <<>>]} \cup
         {[parser |-> [parser EXCEPT !.lines = parser.lines + 1,
                                     !.last_time = o.network_time],
           hist_queue |-> <<o>>] :
            o \in IF parser.lines < parser.limit THEN NextLines ELSE {}}

\* ---------------------------------------------------------------- scheduler
QueueTime(queue) == IF queue # <<>> THEN queue[1].network_time ELSE DatetimeMax

get_queue_time(hq) ==
    <<QueueTime(hq), QueueTime(network2bist_queue), QueueTime(bist2network_queue)>>

\* An argmin that returns the last index of the least entry
ArgMinLast(times) ==
    CHOOSE i \in 0..(Len(times) - 1) :
        /\ \A j \in 0..(Len(times) - 1) : times[i + 1] <= times[j + 1]
        /\ \A j \in (i + 1)..(Len(times) - 1) : times[j + 1] # times[i + 1]

\* np.argmin: the first index of the least entry (0-based)
ArgMin(times) ==
    CHOOSE i \in 0..(Len(times) - 1) :
        /\ \A j \in 0..(Len(times) - 1) : times[i + 1] <= times[j + 1]
        /\ \A j \in 0..(i - 1) : times[j + 1] # times[i + 1]

\* A scheduler that never serves bist2network
NextSourceNeverBist2Network(hq) ==
    IF hq = <<>> /\ network2bist_queue = <<>> /\ bist2network_queue = <<>>
    THEN NO_ORDER
    ELSE IF ArgMin(get_queue_time(hq)) + 1 = BIST2NETWORK
         THEN BIST2NETWORK + 1
         ELSE ArgMin(get_queue_time(hq)) + 1

\* The source _get_next_order returns once the history queue is hq
NextSource(hq) ==
    IF hq = <<>> /\ network2bist_queue = <<>> /\ bist2network_queue = <<>>
    THEN NO_ORDER
    ELSE ArgMin(get_queue_time(hq)) + 1

\* ------------------------------------------------------------------- agent
\* A strategy: the dummy returns no order; a trading strategy, given the
\* snapshot, returns no order, one add (network_time the
\* snapshot's timestamp, bist_time the latency later, the next id), or one
\* cancel request for an add it sent, on that add's side; a strategy that
\* sends pairs may also return an add and, behind it, its cancel request
Strategy(snapshot, lat) ==
    IF agent.strategy = "dummy" THEN {<<>>}
    ELSE
    {<<>>} \cup
    {<<Order(snapshot.timestamp, snapshot.timestamp + lat, "A", sd, px, qty,
             FirstAgentId + Len(agent.sides))>> :
        sd \in IF Len(agent.sides) < MaxAdds THEN Sides ELSE {},
        px \in Prices, qty \in Quantities} \cup
    {<<Order(snapshot.timestamp, snapshot.timestamp + lat, "C", agent.sides[i],
             0, 0, FirstAgentId + i - 1)>> :
        i \in IF agent.cancels < MaxCancels THEN 1..Len(agent.sides) ELSE {}} \cup
    {<<Order(snapshot.timestamp, snapshot.timestamp + lat, "A", sd, px, qty,
             FirstAgentId + Len(agent.sides)),
       Order(snapshot.timestamp, snapshot.timestamp + lat, "C", sd, 0, 0,
             FirstAgentId + Len(agent.sides))>> :
        sd \in IF agent.strategy = "pairs" /\ Len(agent.sides) < MaxAdds
                  /\ agent.cancels < MaxCancels
               THEN Sides ELSE {},
        px \in Prices, qty \in Quantities}

AgentAfter(a, snapshot, orders) ==
    LET adds == SelectSeq(orders, LAMBDA o : o.msg_type = "A")
        cancels == SelectSeq(orders, LAMBDA o : o.msg_type = "C")
    IN  [a EXCEPT !.snapshots = Append(a.snapshots, snapshot.timestamp),
                  !.sides = a.sides \o [i \in 1..Len(adds) |-> adds[i].side],
                  !.cancels = a.cancels + Len(cancels)]

\* An update_history that records the instant and the price table only
update_history_without_balance(a, bal, timestamp, price_table) ==
    [a EXCEPT !.history = Append(a.history, timestamp),
              !.price_history = Append(a.price_history, price_table)]

\* Agent.update_history: the instant and copies of the balance and of the
\* price table, appended to the three lists
update_history(a, bal, timestamp, price_table) ==
    [a EXCEPT !.history = Append(a.history, timestamp),
              !.balance_history = Append(a.balance_history, bal),
              !.price_history = Append(a.price_history, price_table)]

\* An agent that pays one fee for whatever number of orders it returns
agent_run_flat_fee(bal, orders) ==
    [bal EXCEPT !.money = bal.money - OrderCost * (IF orders = <<>> THEN 0 ELSE 1)]

\* Agent.run: the fee for the orders the strategy returned
agent_run(bal, orders) == [bal EXCEPT !.money = bal.money - OrderCost * Len(orders)]

\* ----------------------------------------------------------------- actions
Sweep(pre) ==
    LET post == run_market_maker(pre)
    IN  [ran |-> TRUE, pre |-> pre, post |-> post]

\* In the four actions of run() each intermediate result (the refreshed book,
\* the sweep, the handler's result) is bound once, as the one element of a
\* singleton set.

\* run(), NO_ORDER: the final price table, snapshot and sweep
Finalize ==
    /\ pc = "run"
    /\ \E rd \in ReadOutcomes :
        /\ NextSource(rd.hist_queue) = NO_ORDER
        /\ parser' = rd.parser
        /\ hist_queue' = rd.hist_queue
        /\ \E b1 \in {create_snapshot(update_price_table(book))} :
           \E sw \in {Sweep([Self EXCEPT !.book = b1])} :
               /\ agent' = update_history(agent, balance, last_timestamp, b1.price_table)
               /\ book' = sw.post.book
               /\ bist2network_queue' = sw.post.bist2network_queue
               /\ finished_orders' = sw.post.finished_orders
               /\ test_orders' = sw.post.test_orders
               /\ balance' = sw.post.balance
               /\ sweep' = sw
        /\ pc' = "done"
        /\ UNCHANGED <<network2bist_queue, last_timestamp, latency,
                       test_timeline, orders_submitted, dispatched, processed,
                       constructed>>

\* A run() that applies the historical message before it sweeps
Historical_applies_first ==
    /\ pc = "run"
    /\ \E rd \in ReadOutcomes :
        /\ NextSource(rd.hist_queue) = HISTORICAL
        /\ parser' = rd.parser
        /\ hist_queue' = Tail(rd.hist_queue)
        /\ LET next_order == Head(rd.hist_queue)
               swept == last_timestamp # None /\ last_timestamp # next_order.bist_time
           IN
           \E pr \in {process(book, next_order)} :
           \E b1 \in {IF swept THEN update_price_table(pr.book) ELSE pr.book} :
           \E sw \in {IF swept THEN Sweep([Self EXCEPT !.book = b1]) ELSE NoSweep} :
           \E self1 \in {IF swept THEN sw.post ELSE [Self EXCEPT !.book = b1]} :
           \E agent1 \in {IF swept
                          THEN update_history(agent, balance, last_timestamp,
                                              b1.price_table)
                          ELSE agent} :
               /\ sweep' = sw
               /\ processed' = Append(processed, next_order)
               /\ last_timestamp' = next_order.bist_time
               /\ book' = self1.book
               /\ bist2network_queue' = self1.bist2network_queue
               /\ finished_orders' = self1.finished_orders
               /\ test_orders' = self1.test_orders
               /\ dispatched' = <<dispatched[2], next_order.network_time>>
               /\ IF pr.is_snapshot_created
                  THEN \E orders \in Strategy(pr.book.lob[Len(pr.book.lob)], latency) :
                          /\ balance' = agent_run(self1.balance, orders)
                          /\ network2bist_queue' = network2bist_queue \o orders
                          /\ agent' = AgentAfter(agent1, pr.book.lob[Len(pr.book.lob)],
                                                  orders)
                          /\ orders_submitted' = orders_submitted + Len(orders)
                  ELSE /\ balance' = self1.balance
                       /\ agent' = agent1
                       /\ UNCHANGED <<network2bist_queue, orders_submitted>>
        /\ UNCHANGED <<latency, pc, test_timeline, constructed>>

\* run(), HISTORICAL: the sweep for the instant that ends, the message applied
\* to the book, the strategy run on the snapshot this produced
Historical ==
    /\ pc = "run"
    /\ \E rd \in ReadOutcomes :
        /\ NextSource(rd.hist_queue) = HISTORICAL
        /\ parser' = rd.parser
        /\ hist_queue' = Tail(rd.hist_queue)
        /\ LET next_order == Head(rd.hist_queue)
               swept == last_timestamp # None /\ last_timestamp # next_order.bist_time
           IN
           \E b1 \in {IF swept THEN update_price_table(book) ELSE book} :
           \E sw \in {IF swept THEN Sweep([Self EXCEPT !.book = b1]) ELSE NoSweep} :
           \E self1 \in {IF swept THEN sw.post ELSE Self} :
           \E agent1 \in {IF swept
                          THEN update_history(agent, balance, last_timestamp,
                                              b1.price_table)
                          ELSE agent} :
           \E pr \in {process(self1.book, next_order)} :
               /\ sweep' = sw
               /\ processed' = Append(processed, next_order)
               /\ last_timestamp' = next_order.bist_time
               /\ book' = pr.book
               /\ bist2network_queue' = self1.bist2network_queue
               /\ finished_orders' = self1.finished_orders
               /\ test_orders' = self1.test_orders
               /\ dispatched' = <<dispatched[2], next_order.network_time>>
               /\ IF pr.is_snapshot_created
                  THEN \E orders \in Strategy(pr.book.lob[Len(pr.book.lob)], latency) :
                          /\ balance' = agent_run(self1.balance, orders)
                          /\ network2bist_queue' = network2bist_queue \o orders
                          /\ agent' = AgentAfter(agent1, pr.book.lob[Len(pr.book.lob)],
                                                  orders)
                          /\ orders_submitted' = orders_submitted + Len(orders)
                  ELSE /\ balance' = self1.balance
                       /\ agent' = agent1
                       /\ UNCHANGED <<network2bist_queue, orders_submitted>>
        /\ UNCHANGED <<latency, pc, test_timeline, constructed>>

\* What a handler of an agent-side message leaves in the variables
Handled(self1) ==
    /\ book' = self1.book
    /\ test_orders' = self1.test_orders
    /\ finished_orders' = self1.finished_orders
    /\ test_timeline' = self1.test_timeline
    /\ balance' = self1.balance
    /\ pc' = IF self1.raised THEN "error" ELSE "run"

\* run(), NETWORK2BIST
Network2Bist ==
    /\ pc = "run"
    /\ \E rd \in ReadOutcomes :
        /\ NextSource(rd.hist_queue) = NETWORK2BIST
        /\ parser' = rd.parser
        /\ hist_queue' = rd.hist_queue
        /\ network2bist_queue' = Tail(network2bist_queue)
        /\ LET next_order == Head(network2bist_queue)
           IN
           \E self1 \in {execute_network2bist(Self, next_order)} :
               /\ Handled(self1)
               /\ bist2network_queue' = self1.bist2network_queue
               /\ dispatched' = <<dispatched[2], next_order.network_time>>
        /\ sweep' = NoSweep
        /\ UNCHANGED <<last_timestamp, latency, agent, orders_submitted,
                       processed, constructed>>

\* run(), BIST2NETWORK
Bist2Network ==
    /\ pc = "run"
    /\ \E rd \in ReadOutcomes :
        /\ NextSource(rd.hist_queue) = BIST2NETWORK
        /\ parser' = rd.parser
        /\ hist_queue' = rd.hist_queue
        /\ LET next_order == Head(bist2network_queue)
           IN
           \E self1 \in {execute_bist2network(
                             [Self EXCEPT !.bist2network_queue = Tail(bist2network_queue)],
                             next_order)} :
               /\ Handled(self1)
               /\ bist2network_queue' = self1.bist2network_queue
               /\ dispatched' = <<dispatched[2], next_order.network_time>>
        /\ sweep' = NoSweep
        /\ UNCHANGED <<network2bist_queue, last_timestamp, latency, agent,
                       orders_submitted, processed, constructed>>

Next == Finalize \/ Historical \/ Network2Bist \/ Bist2Network

Spec == Init /\ [][Next]_vars

\* The runs of the dummy strategy, which only replay the history into the book
BookInit ==
    /\ parser = [is_open |-> TRUE, lines |-> 0, last_time |-> None, limit |-> MaxHist]
    /\ hist_queue = <<>>
    /\ network2bist_queue = <<>>
    /\ bist2network_queue = <<>>
    /\ last_timestamp = None
    /\ book = NewBook
    /\ test_orders = <<>>
    /\ finished_orders = {}
    /\ test_timeline = <<>>
    /\ balance = Balance(InitialMoney, InitialStock)
    /\ latency = 0
    /\ agent = NewAgent("dummy")
    /\ pc = "run"
    /\ orders_submitted = 0
    /\ dispatched = <<None, None>>
    /\ sweep = NoSweep
    /\ processed = <<>>
    /\ constructed = NoConstruction

BookNext == Finalize \/ Historical

BookSpec == BookInit /\ [][BookNext]_vars

\* ------------------------------------------------- the queues, drawn
\* The scheduler and the handlers applied to drawn queues: the file is read to
\* its end, hist_queue holds its last line or nothing, network2bist what an
\* agent may have returned (adds, cancel requests, and messages of a type the
\* queue does not take), bist2network nothing or one message of a type that
\* queue does not take, and the agent has money for some of the adds only.
MaxQueued == 2

AgentMessages(t, lat) ==
    {Order(t, t + lat, "A", sd, px, qty, FirstAgentId) :
        sd \in Sides, px \in Prices, qty \in Quantities} \cup
    {Order(t, t + lat, "C", sd, 0, 0, id) :
        sd \in Sides, id \in {FirstAgentId, FirstAgentId + 1}} \cup
    {Order(t, t + lat, mt, "B", 1, 1, FirstAgentId) : mt \in {"D", "E"}}

StrayMessages(t) == {Order(t, t, mt, "B", 1, 1, FirstAgentId) : mt \in {"A", "C"}}

SeqsUpTo(S, n) == UNION {[1..k -> S] : k \in 1..n}

HandlerInit ==
    /\ parser = [is_open |-> FALSE, lines |-> 0, last_time |-> None, limit |-> MaxHist]
    /\ hist_queue \in {<<>>} \cup {<<Order(t, t, "A", "S", 1, 1, 1)>> : t \in 1..2}
    /\ latency \in 0..MaxLatency
    /\ \E t \in 1..2 : network2bist_queue \in SeqsUpTo(AgentMessages(t, latency), MaxQueued)
    /\ bist2network_queue \in {<<>>} \cup {<<m>> : m \in StrayMessages(1) \cup StrayMessages(2)}
    /\ last_timestamp = None
    /\ book = NewBook
    /\ test_orders = <<>>
    /\ finished_orders = {}
    /\ test_timeline = <<>>
    /\ \E m \in (InitialMoney - 2)..InitialMoney : balance = Balance(m, InitialStock)
    /\ agent = NewAgent("trader")
    /\ pc = "run"
    /\ orders_submitted = 0
    /\ dispatched = <<None, None>>
    /\ sweep = NoSweep
    /\ processed = <<>>
    /\ constructed = NoConstruction

HandlerSpec == HandlerInit /\ [][Next]_vars

\* The runs of a strategy that may return two orders for one snapshot, under
\* the longest latency
PairsInit ==
    /\ parser = [is_open |-> TRUE, lines |-> 0, last_time |-> None, limit |-> MaxHist]
    /\ hist_queue = <<>>
    /\ network2bist_queue = <<>>
    /\ bist2network_queue = <<>>
    /\ last_timestamp = None
    /\ book = NewBook
    /\ test_orders = <<>>
    /\ finished_orders = {}
    /\ test_timeline = <<>>
    /\ balance = Balance(InitialMoney, InitialStock)
    /\ latency = MaxLatency
    /\ agent = NewAgent("pairs")
    /\ pc = "run"
    /\ orders_submitted = 0
    /\ dispatched = <<None, None>>
    /\ sweep = NoSweep
    /\ processed = <<>>
    /\ constructed = NoConstruction

PairsSpec == PairsInit /\ [][Next]_vars

\* ------------------------------------------------- two bids, drawn
\* The runs that go on from the state after the second line of a history: two
\* sell orders of quantity 1 were added (ids 1 and 2, at instants 1 and 2, the
\* first at price 1), the sweep of instant 1 found no test order, the strategy
\* answered the first snapshot with two bids (of quantities 2 and 1), which
\* wait in network2bist, and paid their fees; the second line is an ask of up
\* to one tick above MaxPrice, a level no bid reaches; the agent has money for both,
\* the latency is MaxLatency or one more, and the file may hold one line more
\* than MaxHist.
SweepMoney == 10

SweepInit ==
    \E py \in 1..(MaxPrice + 1), p1 \in Prices, p2 \in Prices,
       lat \in MaxLatency..(MaxLatency + 1) :
        LET X == Order(1, 1, "A", "S", 1, 1, 1)
            Y == Order(2, 2, "A", "S", py, 1, 2)
            bal == Balance(SweepMoney, InitialStock)
            b1 == update_price_table(process(NewBook, X).book)
            pr == process(b1, Y)
            snapshot == pr.book.lob[Len(pr.book.lob)]
            orders == <<Order(snapshot.timestamp, snapshot.timestamp + lat, "A", "B",
                              p1, 2, FirstAgentId),
                        Order(snapshot.timestamp, snapshot.timestamp + lat, "A", "B",
                              p2, 1, FirstAgentId + 1)>>
        IN  /\ parser = [is_open |-> TRUE, lines |-> 2, last_time |-> Y.network_time,
                         limit |-> MaxHist + 1]
            /\ hist_queue = <<>>
            /\ network2bist_queue = orders
            /\ bist2network_queue = <<>>
            /\ last_timestamp = Y.bist_time
            /\ book = pr.book
            /\ test_orders = <<>>
            /\ finished_orders = {}
            /\ test_timeline = <<>>
            /\ balance = agent_run(bal, orders)
            /\ latency = lat
            /\ agent = AgentAfter(update_history(NewAgent("trader"), bal, X.bist_time,
                                                 b1.price_table),
                                  snapshot, orders)
            /\ pc = "run"
            /\ orders_submitted = Len(orders)
            /\ dispatched = <<X.network_time, Y.network_time>>
            /\ sweep = Sweep(Backtest(b1, <<>>, {}, <<>>, <<>>, X.bist_time, lat, bal))
            /\ processed = <<X, Y>>
            /\ constructed = NoConstruction

SweepSpec == SweepInit /\ [][Next]_vars

\* ------------------------------------------------- executes, drawn
\* The accountant applied to drawn executes: one test order of either side was
\* admitted by execute_add and its fee paid, bist2network holds one or two
\* execute messages for it, of its side and of any price and quantity,
\* network2bist nothing or its cancel request, and the file is read to its end
\* with its last line, or nothing, in hist_queue.
ExecuteMessages(t, lat, sd) ==
    {Order(t + lat, t, "E", sd, px, qty, FirstAgentId) : px \in Prices, qty \in Quantities}

ExecuteInit ==
    \E sd \in Sides, px \in Prices, qty \in Quantities, lat \in 0..MaxLatency :
        LET r == Order(1, 1 + lat, "A", sd, px, qty, FirstAgentId)
            bal == agent_run(Balance(SweepMoney, MaxQty), <<r>>)
            admitted == execute_add(Backtest(NewBook, <<>>, {}, <<Str(r)>>, <<>>,
                                             2, lat, bal), r)
        IN  /\ parser = [is_open |-> FALSE, lines |-> 0, last_time |-> None, limit |-> MaxHist]
            /\ hist_queue \in {<<>>, <<Order(3, 3, "A", "S", 1, 1, 1)>>}
            /\ network2bist_queue \in
                  {<<>>, <<Order(2, 2 + lat, "C", sd, 0, 0, FirstAgentId)>>}
            /\ bist2network_queue \in SeqsUpTo(ExecuteMessages(2, lat, sd), MaxQueued)
            /\ last_timestamp = 2
            /\ book = NewBook
            /\ test_orders = admitted.test_orders
            /\ finished_orders = {}
            /\ test_timeline = admitted.test_timeline
            /\ balance = admitted.balance
            /\ latency = lat
            /\ agent = [NewAgent("trader") EXCEPT !.sides = <<sd>>]
            /\ pc = "run"
            /\ orders_submitted = 1
            /\ dispatched = <<None, None>>
            /\ sweep = NoSweep
            /\ processed = <<>>
            /\ constructed = NoConstruction

ExecuteSpec == ExecuteInit /\ [][Next]_vars

\* ------------------------------------------------- Order(...), drawn
\* The pydantic validation of Order's fields: msg_type and side are Literal
\* fields, price and quantity any number
OrderValidates(mt, sd, px, qty) ==
    /\ mt \in {"A", "D", "E"}
    /\ sd \in {"B", "S"}
    /\ px \in Int
    /\ qty \in Int

\* The arguments tried: the message types of the engine and one more, the two
\* sides and one more, prices and quantities from -1
TriedMsgTypes == {"A", "D", "E", "C", "X"}

TriedSides == {"B", "S", "X"}

\* One call of Order(...): the arguments and whether the object was built or a
\* ValidationError raised
ConstructOrder ==
    /\ pc = "run"
    /\ \E mt \in TriedMsgTypes, sd \in TriedSides,
          px \in (-1)..MaxPrice, qty \in (-1)..MaxQty :
          constructed' = [called |-> TRUE, msg_type |-> mt, side |-> sd,
                          price |-> px, quantity |-> qty,
                          accepted |-> OrderValidates(mt, sd, px, qty)]
    /\ UNCHANGED <<parser, hist_queue, network2bist_queue, bist2network_queue,
                   last_timestamp, book, test_orders, finished_orders,
                   test_timeline, balance, latency, agent, pc, orders_submitted,
                   dispatched, sweep, processed>>

OrderSpec == Init /\ [][ConstructOrder]_vars

\* ------------------------------------------------------------------ claims
RECURSIVE SumSeq(_)
\* The sum of a sequence of numbers
SumSeq(s) == IF s = <<>> THEN 0 ELSE Head(s) + SumSeq(Tail(s))

\* The sum of f(x) over the elements x of the sequence s
SumOver(s, f(_)) == SumSeq([i \in 1..Len(s) |-> f(s[i])])

RECURSIVE SumQuantity(_, _)
\* The sum of the quantities of the orders of d under the keys S
SumQuantity(d, S) ==
    IF S = {} THEN 0
    ELSE LET x == CHOOSE y \in S : TRUE
         IN  d[x].quantity + SumQuantity(d, S \ {x})

\* The remaining quantity resting in the book on a side at a price
RestingQty(side, px) ==
    SumQuantity(book.orders,
                {id \in DOMAIN book.orders :
                    book.orders[id].side = side /\ book.orders[id].price = px})

LevelsMatch(prices, side) ==
    /\ \A px \in 0..(MaxPrice + 1) : Get(prices, px, 0) = RestingQty(side, px)
    /\ \A px \in DOMAIN prices : prices[px] # 0

\* The string forms of the historical messages processed so far
ProcessedStrs ==
    {book.mold_package[i] : i \in 1..Len(book.mold_package)} \cup
    UNION {{book.lob[k].mold_package[i] : i \in 1..Len(book.lob[k].mold_package)} :
           k \in 1..Len(book.lob)}

NoZeroAdd == \A m \in ProcessedStrs : ~(m[1] = "A" /\ m[4] = 0)

\* C1 (as claimed): after every historical message, on each side the price-map
\* entry at a price is the sum of the remaining quantities of the orders
\* resting there, and the map holds no zero entry.
C1_LevelsAreSums ==
    /\ LevelsMatch(book.bid_prices, "B")
    /\ LevelsMatch(book.ask_prices, "S")

\* C1 (amended): the same, for a history whose adds have a positive quantity.
C1_LevelsAreSumsPositiveAdds == NoZeroAdd => C1_LevelsAreSums

\* C1 witness: a level shared by two resting orders, right after an execute
\* took part of one of them.
C1_Witness ==
    /\ NoZeroAdd
    /\ book.mold_package # <<>>
    /\ book.mold_package[Len(book.mold_package)][1] = "E"
    /\ \E a, c \in DOMAIN book.orders :
          /\ a # c
          /\ book.orders[a].side = book.orders[c].side
          /\ book.orders[a].price = book.orders[c].price
          /\ <<"E", book.orders[a].side, book.orders[a].price, 1, a>>
                = book.mold_package[Len(book.mold_package)]

\* C2 (as claimed): the messages the scheduler dispatches are processed in
\* non-decreasing network_time order.
C2_DispatchInTimeOrder == dispatched[1] <= dispatched[2]

HeldMoneyOf(o) == IF o.side = "B" THEN o.price * o.quantity ELSE 0

HeldStockOf(o) == IF o.side = "S" THEN o.quantity ELSE 0

DeletesInTransit == SelectSeq(bist2network_queue, LAMBDA m : m.msg_type = "D")

\* C3 (as claimed): held_money is the sum over the test bids of limit price
\* times remaining quantity.
C3_HeldMoneyIsLiveBids == balance.held_money = SumOver(test_orders, HeldMoneyOf)

\* C3 (amended): held_money is the sum over the test bids of price times
\* remaining quantity plus the price times quantity of every side-B delete
\* still in transit in bist2network.
C3_HeldMoneyWithDeletes ==
    balance.held_money =
        SumOver(test_orders, HeldMoneyOf) + SumOver(DeletesInTransit, HeldMoneyOf)

\* C3 witness: a cancelled bid whose delete is in transit, beside its hold.
C3_Witness ==
    /\ SumOver(DeletesInTransit, HeldMoneyOf) > 0
    /\ balance.held_money > 0

\* C4 (as claimed): held_stock is the sum over the test asks of remaining
\* quantity.
C4_HeldStockIsLiveAsks == balance.held_stock = SumOver(test_orders, HeldStockOf)

\* C4 (amended): held_stock is the sum over the test asks of remaining
\* quantity plus the quantity of every side-S delete still in transit in
\* bist2network.
C4_HeldStockWithDeletes ==
    balance.held_stock =
        SumOver(test_orders, HeldStockOf) + SumOver(DeletesInTransit, HeldStockOf)

\* C4 witness: a cancelled ask whose delete is in transit, beside its hold.
C4_Witness ==
    /\ SumOver(DeletesInTransit, HeldStockOf) > 0
    /\ balance.held_stock > 0

ExecutesInTransit(id) ==
    SelectSeq(bist2network_queue, LAMBDA m : m.msg_type = "E" /\ m.order_id = id)

\* C5 (as claimed): no order id is both in finished_orders and a key of
\* test_orders.
C5_FinishedDisjoint == finished_orders \cap KeySet(test_orders) = {}

\* C5 (amended): an id that is both in finished_orders and a key of
\* test_orders is an order a sweep has matched in full, and an execute for it
\* is still in transit in bist2network.
C5_FinishedOnlyInTransit ==
    \A id \in finished_orders \cap KeySet(test_orders) : ExecutesInTransit(id) # <<>>

\* C5 witness: an order a sweep finished, still in test_orders while its
\* execute travels.
C5_Witness ==
    \E id \in finished_orders \cap KeySet(test_orders) : ExecutesInTransit(id) # <<>>

\* The executes a sweep added to bist2network
Emitted(sw) ==
    SubSeq(sw.post.bist2network_queue, Len(sw.pre.bist2network_queue) + 1,
           Len(sw.post.bist2network_queue))

\* The live test orders of a side when the sweep began, best price first
LiveSorted(sw, side) == SortedByPrice(LiveOfSide(sw.pre, side), side = "B")

\* C6 (as claimed): in the ask sweep the first live agent sell order whose
\* limit is not above the best public bid is crossed with the best bid level:
\* an execute with side S, its id, its limit price and the quantity
\* min(remaining, level quantity) is put into bist2network.
C6_AskSweepCrosses ==
    sweep.ran =>
        LET asks == LiveSorted(sweep, "S")
            bids == sorted_bids(sweep.pre.book)
        IN  (asks # <<>> /\ bids # <<>> /\ asks[1].price <= bids[Len(bids)][1]) =>
                \E i \in 1..Len(Emitted(sweep)) :
                    Emitted(sweep)[i] =
                        Order(sweep.pre.last_timestamp + sweep.pre.latency,
                              sweep.pre.last_timestamp, "E", "S", asks[1].price,
                              Min(asks[1].quantity, bids[Len(bids)][2]),
                              asks[1].order_id)

RECURSIVE ExecutesFollow(_, _, _)
\* Whether each execute of msgs is for a live bid, at an ask level not above
\* the bid's limit, for min(what the bid still wants, what the level still has);
\* want and have are those remainders before msgs
ExecutesFollow(msgs, want, have) ==
    IF msgs = <<>> THEN TRUE
    ELSE LET m == Head(msgs)
         IN  /\ m.msg_type = "E"
             /\ m.side = "B"
             /\ m.order_id \in DOMAIN want
             /\ m.price \in DOMAIN have
             /\ m.price <= want[m.order_id].price
             /\ m.quantity = Min(want[m.order_id].quantity, have[m.price])
             /\ ExecutesFollow(
                    Tail(msgs),
                    [want EXCEPT ![m.order_id].quantity = @ - m.quantity],
                    [have EXCEPT ![m.price] = @ - m.quantity])

LiveBidsById(sw) ==
    [id \in {LiveOfSide(sw.pre, "B")[i].order_id : i \in 1..Len(LiveOfSide(sw.pre, "B"))}
        |-> Lookup(sw.pre.test_orders, id)]

\* C7: every execute the bid sweep puts into bist2network has msg_type E,
\* side B, the id of a live agent bid, the price of the public ask level it
\* touched (never above the bid's limit) and the quantity min(the bid's
\* remaining quantity in this sweep, the level's remaining quantity).
C7_BidExecutes ==
    sweep.ran =>
        ExecutesFollow(SelectSeq(Emitted(sweep), LAMBDA m : m.side = "B"),
                       LiveBidsById(sweep), sweep.pre.book.ask_prices)

\* C7 witness: a sweep in which one bid took two ask levels, the first below
\* its limit.
C7_Witness ==
    /\ sweep.ran
    /\ \E i, j \in 1..Len(Emitted(sweep)) :
          /\ i < j
          /\ Emitted(sweep)[i].order_id = Emitted(sweep)[j].order_id
          /\ Emitted(sweep)[i].side = "B"
          /\ Emitted(sweep)[i].price < Emitted(sweep)[j].price

\* C8 (as claimed): every execute a sweep emits for a test order has a
\* bist_time that is not earlier than the order's own bist_time.
C8_NoMatchBeforeArrival ==
    sweep.ran =>
        \A i \in 1..Len(Emitted(sweep)) :
            Emitted(sweep)[i].bist_time >=
                Lookup(sweep.pre.test_orders, Emitted(sweep)[i].order_id).bist_time

PublicBook(b) ==
    [orders |-> b.orders, bid_prices |-> b.bid_prices, ask_prices |-> b.ask_prices]

\* C9: a run of the matching engine leaves bid_prices, ask_prices and orders
\* of the public book as they were, whatever it matched.
C9_SweepKeepsBook == sweep.ran => PublicBook(sweep.post.book) = PublicBook(sweep.pre.book)

\* C9 witness: a sweep that matched a test bid.
C9_Witness == sweep.ran /\ Emitted(sweep) # <<>>

\* C10: balance.money never drops below -order_cost times the number of
\* orders the agent has returned so far.
C10_MoneyAboveFees == balance.money >= -(OrderCost * orders_submitted)

\* C10 witness: money is negative after fees, an add and the delivery of an
\* execute.
C10_Witness == balance.money < 0 /\ balance.stock > InitialStock

\* The timeline entries of a message type for an order id
TimelineOf(mt, id) == SelectSeq(test_timeline, LAMBDA e : e[1] = mt /\ e[5] = id)

\* C11: in every reachable state of a run held_money, stock and held_stock
\* are all at least 0.
C11_HoldsNonNegative ==
    /\ balance.held_money >= 0
    /\ balance.stock >= 0
    /\ balance.held_stock >= 0

\* C11 witness: a bid was executed in part, the rest was cancelled and its
\* delete delivered, which brought held_money back to 0.
C11_Witness ==
    /\ \E id \in {FirstAgentId} :
          /\ TimelineOf("E", id) # <<>>
          /\ TimelineOf("D", id) # <<>>
    /\ balance.held_money = 0
    /\ balance.stock > InitialStock

\* price * quantity of a timeline entry, and its quantity
EntryMoney(e) == e[3] * e[4]

EntryQuantity(e) == e[4]

\* Whether every execute of the timeline is an execute of the order id
OnlyFills(id) == \A i \in 1..Len(test_timeline) :
    test_timeline[i][1] = "E" => test_timeline[i][5] = id

DispatchesNetwork2Bist ==
    /\ pc = "run"
    /\ network2bist_queue # <<>>
    /\ network2bist_queue' = Tail(network2bist_queue)
    /\ test_timeline' = Append(test_timeline, Str(Head(network2bist_queue)))

DispatchesBist2Network ==
    /\ pc = "run"
    /\ bist2network_queue # <<>>
    /\ network2bist_queue' = network2bist_queue
    /\ test_timeline' = Append(test_timeline, Str(Head(bist2network_queue)))

\* The cancel of a live test bid that has had no fill
CancelsUnfilledBid ==
    /\ DispatchesNetwork2Bist
    /\ Head(network2bist_queue).msg_type = "C"
    /\ HasKey(test_orders, Head(network2bist_queue).order_id)
    /\ Lookup(test_orders, Head(network2bist_queue).order_id).side = "B"
    /\ TimelineOf("E", Head(network2bist_queue).order_id) = <<>>

\* The delivery of the delete of a cancelled bid that has had no fill
DeliversUnfilledBidDelete ==
    /\ DispatchesBist2Network
    /\ Head(bist2network_queue).msg_type = "D"
    /\ Head(bist2network_queue).side = "B"
    /\ TimelineOf("E", Head(bist2network_queue).order_id) = <<>>

\* C13: the cancel of a live test bid that has had no fill removes it from
\* test_orders and puts exactly one delete with the order's id, side, price
\* and quantity at the end of bist2network; the delivery of that delete moves
\* price * quantity, the amount reserved at admission, from held_money to
\* money and leaves stock and held_stock alone.
C13_CancelRoundTrip ==
    [][ /\ CancelsUnfilledBid =>
            LET c == Head(network2bist_queue)
                o == Lookup(test_orders, c.order_id)
            IN  /\ test_orders' = DictPop(test_orders, c.order_id)
                /\ bist2network_queue' =
                      Append(bist2network_queue,
                             Order(c.bist_time + latency, c.bist_time, "D", "B",
                                   o.price, o.quantity, c.order_id))
                /\ balance' = balance
        /\ DeliversUnfilledBidDelete =>
            LET d == Head(bist2network_queue)
                add == TimelineOf("A", d.order_id)[1]
            IN  /\ d.price = add[3] /\ d.quantity = add[4]
                /\ balance' = [balance EXCEPT
                                  !.money = @ + add[3] * add[4],
                                  !.held_money = @ - add[3] * add[4]]
      ]_vars

\* C13 witness: the delete of a cancelled, unfilled bid has been delivered and
\* the reserved money is free again.
C13_Witness ==
    /\ test_timeline # <<>>
    /\ LET e == test_timeline[Len(test_timeline)]
       IN  /\ e[1] = "D" /\ e[2] = "B" /\ e[3] * e[4] > 0
           /\ TimelineOf("E", e[5]) = <<>>
    /\ balance.held_money = 0
    /\ balance.money = InitialMoney - OrderCost * orders_submitted

\* The timestamps of the first n snapshots of the book
SnapshotTimes(n) == [i \in 1..n |-> book.lob[i].timestamp]

\* C14 (as claimed): the strategy has been given every snapshot the book
\* holds, once each and in order, the one made at finalization included.
C14_EverySnapshotSeen == agent.snapshots = SnapshotTimes(Len(book.lob))

\* C14 (amended): the strategy has been given every snapshot that process
\* made during the run, once each and in order, with timestamps that do not
\* decrease; the snapshot made at finalization is the last of the book and
\* was not given to it.
C14_EveryRunSnapshotSeen ==
    /\ agent.snapshots =
          SnapshotTimes(IF pc = "done" /\ book.lob # <<>>
                        THEN Len(book.lob) - 1 ELSE Len(book.lob))
    /\ \A i, j \in 1..Len(agent.snapshots) :
          i <= j => agent.snapshots[i] <= agent.snapshots[j]

\* C14 witness: a finished run in which the strategy was given two snapshots
\* and the book holds a third, made at finalization.
C14_Witness ==
    /\ pc = "done"
    /\ Len(agent.snapshots) = 2
    /\ Len(book.lob) = 3

\* Whether the head of q1 is earlier than the head of q2 (not later, when
\* q1 wins ties); an empty queue counts as +infinity
HeadEarlier(q1, q2) ==
    q1 # <<>> /\ (q2 = <<>> \/ q1[1].network_time < q2[1].network_time)

HeadNotLater(q1, q2) ==
    q1 # <<>> /\ (q2 = <<>> \/ q1[1].network_time <= q2[1].network_time)

\* C15: whatever the history file holds next, the source _get_next_order
\* returns is the queue whose head has the least network_time, hist before
\* network2bist before bist2network when heads tie, and NO_ORDER exactly when
\* the three queues are empty, which leaves the file closed.
C15_SchedulerPicksEarliest ==
    pc = "run" =>
        \A rd \in ReadOutcomes :
            LET hq == rd.hist_queue
                n2b == network2bist_queue
                b2n == bist2network_queue
                source == NextSource(hq)
            IN  /\ source = NO_ORDER <=> (hq = <<>> /\ n2b = <<>> /\ b2n = <<>>)
                /\ source = NO_ORDER => ~rd.parser.is_open
                /\ source = HISTORICAL <=>
                       (HeadNotLater(hq, n2b) /\ HeadNotLater(hq, b2n))
                /\ source = NETWORK2BIST <=>
                       (HeadEarlier(n2b, hq) /\ HeadNotLater(n2b, b2n))
                /\ source = BIST2NETWORK <=>
                       (HeadEarlier(b2n, hq) /\ HeadEarlier(b2n, n2b))

\* C15 witness: the heads of the three queues tied and the history's message
\* was taken first; the two agent-side heads still wait with its network_time.
C15_Witness ==
    /\ pc = "run"
    /\ hist_queue = <<>> /\ book.mold_package # <<>> /\ test_timeline = <<>>
    /\ network2bist_queue # <<>> /\ bist2network_queue # <<>>
    /\ network2bist_queue[1].network_time = dispatched[2]
    /\ bist2network_queue[1].network_time = dispatched[2]

\* C16 (as claimed): when run has returned, the three queues are empty.
C16_QueuesDrained ==
    pc = "done" =>
        hist_queue = <<>> /\ network2bist_queue = <<>> /\ bist2network_queue = <<>>

\* The drawn queues with one line of history, a fixed latency and balance;
\* the main loop goes on as long as an iteration is possible
LiveInit ==
    /\ HandlerInit
    /\ hist_queue # <<>> /\ hist_queue[1].network_time = 1
    /\ latency = MaxLatency
    /\ network2bist_queue[1].network_time = 1
    /\ \A i \in 1..Len(bist2network_queue) : bist2network_queue[i].msg_type = "A"
    /\ balance.money = InitialMoney

LiveSpec == LiveInit /\ [][Next]_vars /\ WF_vars(Next)

C18_AddDropsOrReserves ==
    [][ (DispatchesNetwork2Bist /\ Head(network2bist_queue).msg_type = "A") =>
            LET o == Head(network2bist_queue)
                need == o.price * o.quantity
            IN  /\ bist2network_queue' = bist2network_queue
                /\ hist_queue' = hist_queue
                /\ finished_orders' = finished_orders
                /\ IF o.side = "B" /\ need > balance.money
                   THEN balance' = balance /\ test_orders' = test_orders
                   ELSE IF o.side = "S" /\ o.quantity > balance.stock
                   THEN balance' = balance /\ test_orders' = test_orders
                   ELSE /\ HasKey(test_orders', o.order_id)
                        /\ Lookup(test_orders', o.order_id) = o
                        /\ KeySet(test_orders') = KeySet(test_orders) \cup {o.order_id}
                        /\ balance' =
                              IF o.side = "B"
                              THEN [balance EXCEPT !.money = @ - need,
                                                   !.held_money = @ + need]
                              ELSE [balance EXCEPT !.stock = @ - o.quantity,
                                                   !.held_stock = @ + o.quantity]
      ]_vars

\* C18 witness: an admitted ask holds the stock, and the bid that followed was
\* dropped: it cost more than the money there was.
C18_Witness ==
    /\ Len(test_timeline) = 2
    /\ test_timeline[1][1] = "A" /\ test_timeline[1][2] = "S"
    /\ test_timeline[2][1] = "A" /\ test_timeline[2][2] = "B"
    /\ test_timeline[2][3] * test_timeline[2][4] > balance.money
    /\ balance.held_stock > 0 /\ balance.held_money = 0
    /\ Len(test_orders) = 1

\* C19: the dispatch of a cancel request whose order_id is not in test_orders
\* puts nothing into bist2network and leaves the balance, test_orders and
\* finished_orders as they were; the run goes on.
C19_UnknownCancelIsNoOp ==
    [][ (/\ DispatchesNetwork2Bist
         /\ Head(network2bist_queue).msg_type = "C"
         /\ ~HasKey(test_orders, Head(network2bist_queue).order_id)) =>
            /\ bist2network_queue' = bist2network_queue
            /\ balance' = balance
            /\ test_orders' = test_orders
            /\ finished_orders' = finished_orders
            /\ pc' = "run"
      ]_vars

\* C19 witness: an add was dropped, the cancel request for its id came next
\* and nothing answers it.
C19_Witness ==
    /\ pc = "run"
    /\ Len(test_timeline) = 2
    /\ test_timeline[1][1] = "A" /\ test_timeline[2][1] = "C"
    /\ test_timeline[2][5] = test_timeline[1][5]
    /\ test_orders = <<>> /\ bist2network_queue = <<>>
    /\ balance.held_money = 0 /\ balance.held_stock = 0

\* C20: the dispatch of a network2bist message that is neither an add nor a
\* cancel request, or of a bist2network message that is neither a delete nor
\* an execute, aborts the run, and the message is not applied: the balance,
\* test_orders, finished_orders and the other queue stay as they were.
C20_InvalidTypeAborts ==
    [][ /\ (DispatchesNetwork2Bist
            /\ Head(network2bist_queue).msg_type \notin {"A", "C"}) =>
               /\ pc' = "error"
               /\ balance' = balance
               /\ test_orders' = test_orders
               /\ finished_orders' = finished_orders
               /\ bist2network_queue' = bist2network_queue
        /\ (DispatchesBist2Network
            /\ Head(bist2network_queue).msg_type \notin {"D", "E"}) =>
               /\ pc' = "error"
               /\ balance' = balance
               /\ test_orders' = test_orders
               /\ finished_orders' = finished_orders
               /\ bist2network_queue' = Tail(bist2network_queue)
      ]_vars

\* C20 witness: an add was admitted, then an execute came through
\* network2bist for its id: the run is aborted and the order is as it was.
C20_Witness ==
    /\ pc = "error"
    /\ Len(test_timeline) = 2
    /\ test_timeline[1][1] = "A" /\ test_timeline[2][1] = "E"
    /\ test_timeline[2][5] = test_timeline[1][5]
    /\ Len(test_orders) = 1 /\ test_orders[1].quantity = test_timeline[1][4]
    /\ finished_orders = {} /\ bist2network_queue = <<>>

\* ------------------------------------------------------------------ C21
\* The head of bist2network is an execute of an order that is not in
\* test_orders
UnknownExecuteAtHead ==
    /\ bist2network_queue # <<>>
    /\ Head(bist2network_queue).msg_type = "E"
    /\ ~HasKey(test_orders, Head(bist2network_queue).order_id)

FreshAdds(minq) ==
    {Order(1, 1, "A", sd, px, qty, parser.lines + 1) :
        sd \in Sides, px \in Prices, qty \in minq..MaxQty}

\* The deletes of the order an add brought, with any price and quantity fields
DeletesOf(a) ==
    {Order(1, 1, "D", a.side, px, qty, a.order_id) :
        px \in 0..MaxPrice, qty \in 0..MaxQty}

\* The add and then the delete leave the three maps of book b as they were
Restores(b, a, d) ==
    LET b2 == process_delete_order(process_add_order(b, a), d)
    IN  /\ b2.orders = b.orders
        /\ b2.bid_prices = b.bid_prices
        /\ b2.ask_prices = b.ask_prices

\* C22 (as claimed): a historical add of a fresh id followed by the delete of
\* the same id restores both price maps and the orders map to their state
\* before the add, whatever price and quantity the delete message carries.
C22_AddDeleteRestores ==
    \A a \in FreshAdds(0) : \A d \in DeletesOf(a) : Restores(book, a, d)

\* C22 (amended): the same, for a history whose adds, this one included, have
\* a positive quantity.
C22_AddDeleteRestoresPositiveAdds ==
    NoZeroAdd => \A a \in FreshAdds(1) : \A d \in DeletesOf(a) : Restores(book, a, d)

\* C22 witness: an add onto a level that another order holds, and its delete,
\* were the last two messages applied, and the level is the other order's again
C22_Witness ==
    /\ NoZeroAdd
    /\ Len(book.mold_package) >= 3
    /\ LET n == Len(book.mold_package)
           a == book.mold_package[n - 1]
           d == book.mold_package[n]
       IN  /\ a[1] = "A" /\ a[2] = "B"
           /\ d = <<"D", a[2], a[3], a[4], a[5]>>
           /\ \E id \in DOMAIN book.orders :
                 /\ book.orders[id].side = "B"
                 /\ book.orders[id].price = a[3]
                 /\ book.bid_prices[a[3]] = book.orders[id].quantity

\* ------------------------------------------------------------------ C23
\* A step of run() that applies a historical message to the book
AppliesHistorical == pc = "run" /\ pc' = "run" /\ book' # book

\* In that step process() appended one snapshot; run() hands a snapshot to the
\* strategy exactly when process() returned true
SnapshotAppended == Len(book'.lob) = Len(book.lob) + 1

ProcessReturnedTrue == Len(agent'.snapshots) = Len(agent.snapshots) + 1

\* The snapshot process() appended shows the book without the message and
\* carries the previous last_timestamp
SnapshotIsOfBookBefore ==
    /\ SnapshotAppended =>
          book'.lob = Append(book.lob,
                             LOBSnapshot(book.last_timestamp, sorted_bids(book),
                                         sorted_asks(book), book.mold_package))
    /\ ~SnapshotAppended => book'.lob = book.lob

\* C23 (as claimed): process(order) produces a snapshot and returns true
\* exactly when order.network_time differs from the stored last_timestamp; the
\* snapshot is of the book before the message, stamped with the previous
\* last_timestamp.
C23_SnapshotWhenTimeDiffers ==
    [][AppliesHistorical =>
          /\ SnapshotAppended <=> (book.last_timestamp # book'.last_timestamp)
          /\ ProcessReturnedTrue <=> (book.last_timestamp # book'.last_timestamp)
          /\ SnapshotIsOfBookBefore]_vars

\* C23 (amended): the same when a last_timestamp is stored; the first message,
\* processed when none is stored, produces no snapshot and returns false.
C23_SnapshotWhenStoredTimeDiffers ==
    [][AppliesHistorical =>
          /\ SnapshotAppended <=> (book.last_timestamp # None
                                   /\ book.last_timestamp # book'.last_timestamp)
          /\ ProcessReturnedTrue <=> (book.last_timestamp # None
                                      /\ book.last_timestamp # book'.last_timestamp)
          /\ SnapshotIsOfBookBefore]_vars

\* C23 witness: a message of a later instant was just applied; the snapshot
\* this produced carries the earlier instant and does not show the message
C23_Witness ==
    /\ pc = "run"
    /\ Len(book.lob) = 1
    /\ Len(book.mold_package) = 1
    /\ book.mold_package[1][1] = "A"
    /\ book.lob[1].timestamp # book.last_timestamp
    /\ book.lob[1].bids \o book.lob[1].asks # sorted_bids(book) \o sorted_asks(book)
    /\ agent.snapshots = <<book.lob[1].timestamp>>

\* ------------------------------------------------------------------ C24
RECURSIVE MoldsOf(_)
\* The mold packages of a list of snapshots, one after the other, each
\* message with the timestamp of the snapshot that holds it
MoldsOf(lob) ==
    IF lob = <<>> THEN <<>>
    ELSE LET last == lob[Len(lob)]
         IN  MoldsOf(SubSeq(lob, 1, Len(lob) - 1)) \o
             [i \in 1..Len(last.mold_package) |->
                 [timestamp |-> last.timestamp, str |-> last.mold_package[i]]]

\* The snapshots' messages and then those of the mold in progress
MoldsAndInProgress ==
    MoldsOf(book.lob) \o
    [i \in 1..Len(book.mold_package) |->
        [timestamp |-> book.last_timestamp, str |-> book.mold_package[i]]]

\* A mold entry is the string form of a historical message as its handler
\* left it: a delete with the price and quantity of the order it deleted, an
\* execute with the price of its target
IsStrOf(m, o) ==
    /\ m.timestamp = o.network_time
    /\ m.str[1] = o.msg_type /\ m.str[2] = o.side /\ m.str[5] = o.order_id
    /\ o.msg_type = "A" => m.str = Str(o)
    /\ o.msg_type = "E" => m.str[4] = o.quantity

\* C24: the snapshots' mold packages hold, in processing order, exactly the
\* historical messages processed, each snapshot those processed since the
\* previous snapshot (the messages of its instant); no snapshot is made of an
\* empty mold; once run() has finished every processed message is in exactly
\* one snapshot's mold package.
C24_MoldsPartitionHistory ==
    /\ Len(MoldsAndInProgress) = Len(processed)
    /\ \A i \in 1..Len(processed) : IsStrOf(MoldsAndInProgress[i], processed[i])
    /\ \A k \in 1..Len(book.lob) :
          /\ book.lob[k].mold_package # <<>>
          /\ k > 1 => book.lob[k - 1].timestamp < book.lob[k].timestamp
          /\ book.lob[k].timestamp <= book.last_timestamp
          /\ book.mold_package # <<>> => book.lob[k].timestamp < book.last_timestamp
    /\ pc = "done" => book.mold_package = <<>> /\ Len(MoldsOf(book.lob)) = Len(processed)

\* C24 witness: a finished run of three messages in two snapshots, the first
\* of two messages
C24_Witness ==
    /\ pc = "done"
    /\ Len(processed) = 3
    /\ Len(book.lob) = 2
    /\ Len(book.lob[1].mold_package) = 2
    /\ book.lob[2].mold_package[1][1] = "D"

\* ------------------------------------------------------------------ C25
\* The greatest and the least key of a non-empty price map
MaxKey(d) == CHOOSE x \in DOMAIN d : \A y \in DOMAIN d : y <= x

MinKey(d) == CHOOSE x \in DOMAIN d : \A y \in DOMAIN d : x <= y

\* C25 (as claimed): after update_price_table, best_bid is the highest bid
\* price of the book, best_ask the lowest ask price, and mid their mean (here
\* in half ticks, so their sum): the fields are recomputed from the current
\* book on every call. The book right after the call is the one the sweep that
\* follows it starts from.
C25_PriceTableRecomputed ==
    sweep.ran =>
        LET b == sweep.pre.book
            pt == b.price_table
        IN  /\ DOMAIN b.bid_prices # {} => pt.best_bid_price = MaxKey(b.bid_prices)
            /\ DOMAIN b.ask_prices # {} => pt.best_ask_price = MinKey(b.ask_prices)
            /\ (DOMAIN b.bid_prices # {} /\ DOMAIN b.ask_prices # {})
                  => pt.mid_price2 = MaxKey(b.bid_prices) + MinKey(b.ask_prices)

\* ------------------------------------------------------------------ C26
\* The three history lists after a sample of the instant, the balance and the
\* refreshed price table of the current state was appended
SampleAppended ==
    /\ agent'.history = Append(agent.history, last_timestamp)
    /\ agent'.balance_history = Append(agent.balance_history, balance)
    /\ agent'.price_history =
          Append(agent.price_history, update_price_table(book).price_table)

NoSampleAppended ==
    /\ agent'.history = agent.history
    /\ agent'.balance_history = agent.balance_history
    /\ agent'.price_history = agent.price_history

\* The lists have one length; run() on an empty file leaves one sample, with
\* the default price table, and no snapshot
HistoryShape ==
    /\ Len(agent'.history) = Len(agent'.balance_history)
    /\ Len(agent'.history) = Len(agent'.price_history)
    /\ (pc' = "done" /\ processed' = <<>>) =>
          /\ agent'.history = <<None>>
          /\ agent'.balance_history = <<balance>>
          /\ agent'.price_history = <<PriceTable(None, None, None, None, None)>>
          /\ book'.lob = <<>>

C27_OrderValidates ==
    constructed.called =>
        (constructed.accepted <=>
            /\ constructed.msg_type \in {"A", "D", "E", "C"}
            /\ constructed.side \in {"B", "S"}
            /\ constructed.price >= 0
            /\ constructed.quantity >= 0)

\* ------------------------------------------------------------------ C28
\* The number of orders the strategy returned in this step (they are appended
\* to network2bist in the same step; a dispatch takes one off instead)
OrdersReturned == orders_submitted' - orders_submitted

\* C28: each time the strategy returns n orders for a snapshot, money is
\* reduced by order_cost * n in that very step, the orders not yet dispatched
\* (they wait in network2bist) and whatever becomes of them later; no fee when
\* it returns no order; the fee touches no other field of the balance.
C28_FeePerReturnedOrder ==
    [][AppliesHistorical =>
          /\ balance' = [balance EXCEPT !.money = balance.money - OrderCost * OrdersReturned]
          /\ OrdersReturned = Len(network2bist_queue') - Len(network2bist_queue)
          /\ OrdersReturned > 0 => ProcessReturnedTrue
          /\ test_timeline' = test_timeline]_vars

\* C28 witness: the fee of two orders was taken for an add that was then
\* dropped for lack of stock and for its cancel request, which found nothing
C28_Witness ==
    /\ orders_submitted = 2
    /\ balance = Balance(InitialMoney - 2 * OrderCost, InitialStock)
    /\ Len(test_timeline) = 2
    /\ test_timeline[1][1] = "A" /\ test_timeline[1][2] = "S"
    /\ test_timeline[2][1] = "C"
    /\ test_orders = <<>>
    /\ bist2network_queue = <<>>

\* ------------------------------------------------------------------ C29
\* The messages this step placed into bist2network: a dispatch from that
\* queue takes its head and places nothing, any other step only appends
PlacedInBist2Network ==
    IF Len(bist2network_queue') > Len(bist2network_queue)
    THEN SubSeq(bist2network_queue', Len(bist2network_queue) + 1,
                Len(bist2network_queue'))
    ELSE <<>>

\* C29: every message placed into bist2network has network_time = bist_time +
\* latency: a synthetic execute has bist_time = last_timestamp, and the delete
\* made from a cancel request keeps the request's bist_time; so every message
\* waiting in the queue has network_time = bist_time + latency.
C29_TransitTakesLatency ==
    [][/\ \A i \in 1..Len(PlacedInBist2Network) :
             LET m == PlacedInBist2Network[i]
             IN  /\ m.network_time = m.bist_time + latency
                 /\ m.msg_type \in {"D", "E"}
                 /\ m.msg_type = "E" => m.bist_time = last_timestamp
                 /\ m.msg_type = "D" =>
                       /\ DispatchesNetwork2Bist
                       /\ Head(network2bist_queue).msg_type = "C"
                       /\ m.bist_time = Head(network2bist_queue).bist_time
       /\ \A i \in 1..Len(bist2network_queue') :
             bist2network_queue'[i].network_time =
                bist2network_queue'[i].bist_time + latency]_vars

\* C29 witness: with a latency, an execute and the delete of a cancel wait in
\* bist2network
C29_Witness ==
    /\ latency = MaxLatency
    /\ Len(bist2network_queue) = 2
    /\ bist2network_queue[1].msg_type = "E"
    /\ bist2network_queue[2].msg_type = "D"

\* ------------------------------------------------------------------ C30
\* A list of (price, quantity) pairs in strictly ascending / descending price
\* order
Ascending(items) ==
    \A i \in 1..(Len(items) - 1) : items[i][1] < items[i + 1][1]

Descending(items) ==
    \A i \in 1..(Len(items) - 1) : items[i][1] > items[i + 1][1]

\* The pairs are those of the price map, each level once
ItemsOf(items, d) ==
    /\ Len(items) = Cardinality(DOMAIN d)
    /\ \A i \in 1..Len(items) :
          items[i][1] \in DOMAIN d /\ items[i][2] = d[items[i][1]]

\* C30: in every snapshot and in every result of sorted_bids()/sorted_asks()
\* the bids are in strictly ascending price order and the asks in strictly
\* descending order, so the last bid is the highest bid and the last ask the
\* lowest ask.
C30_SidesSorted ==
    /\ \A k \in 1..Len(book.lob) :
          Ascending(book.lob[k].bids) /\ Descending(book.lob[k].asks)
    /\ Ascending(sorted_bids(book)) /\ ItemsOf(sorted_bids(book), book.bid_prices)
    /\ Descending(sorted_asks(book)) /\ ItemsOf(sorted_asks(book), book.ask_prices)
    /\ DOMAIN book.bid_prices # {} =>
          sorted_bids(book)[Len(sorted_bids(book))][1] = MaxKey(book.bid_prices)
    /\ DOMAIN book.ask_prices # {} =>
          sorted_asks(book)[Len(sorted_asks(book))][1] = MinKey(book.ask_prices)

\* C30 witness: a snapshot of two ask levels, the lower one added first
C30_Witness ==
    /\ Len(book.lob) = 1
    /\ Len(book.lob[1].asks) = 2
    /\ book.lob[1].mold_package[1][1] = "A"
    /\ book.lob[1].mold_package[1][3] < book.lob[1].mold_package[2][3]
    /\ book.lob[1].asks[2][1] = book.lob[1].mold_package[1][3]

\* ------------------------------------------------------------------ C31
\* The historical message a step applied: the last of processed'
Applied == processed'[Len(processed')]

LastPricesKept ==
    /\ book'.price_table.last_bid_price = book.price_table.last_bid_price
    /\ book'.price_table.last_ask_price = book.price_table.last_ask_price

\* C31: last_bid and last_ask change only when a historical execute is
\* processed: the field of the message's side becomes the resting order's
\* price and the other one stays; no add, delete, update_price_table call,
\* sweep or agent-side message changes them.
C31_LastPricesOnlyByExecute ==
    [][IF AppliesHistorical /\ Applied.msg_type = "E"
       THEN IF Applied.side = "B"
            THEN /\ book'.price_table.last_bid_price =
                       book.orders[Applied.order_id].price
                 /\ book'.price_table.last_ask_price = book.price_table.last_ask_price
            ELSE /\ book'.price_table.last_ask_price =
                       book.orders[Applied.order_id].price
                 /\ book'.price_table.last_bid_price = book.price_table.last_bid_price
       ELSE LastPricesKept]_vars

\* C31 witness: a finished run in which a bid was executed, then an add was
\* applied, a price table refreshed with both sides present, an agent order
\* handled and the final sweep run: last_bid is still the executed bid's price
C31_Witness ==
    /\ pc = "done"
    /\ Len(processed) = 3
    /\ processed[1].side = "B"
    /\ processed[2].msg_type = "E"
    /\ processed[3].msg_type = "A" /\ processed[3].side = "S"
    /\ processed[3].price # processed[1].price
    /\ book.price_table.last_bid_price = processed[1].price
    /\ book.price_table.last_ask_price = None
    /\ book.price_table.best_bid_price # None
    /\ test_timeline # <<>>

\* ------------------------------------------------------------------ C32
\* The Backtest a sweep of this step starts from: the current one, the price
\* table refreshed, the message not applied, last_timestamp not advanced
BeforeMessage == [Self EXCEPT !.book = update_price_table(book)]

\* C32: when a historical message whose bist_time differs from the set
\* last_timestamp is dispatched, the price table is refreshed, the history
\* sample taken and the sweep run on the book without that message and under
\* the old last_timestamp, which stamps the sweep's executes; the message is
\* applied to the book afterwards. No sweep runs (nothing is matched, nothing
\* sampled) when bist_time is unchanged or last_timestamp is not yet set.
C32_SweepBeforeMessage ==
    [][AppliesHistorical =>
          IF last_timestamp # None /\ last_timestamp # Applied.bist_time
          THEN /\ sweep'.ran
               /\ sweep'.pre = BeforeMessage
               /\ bist2network_queue' = run_market_maker(BeforeMessage).bist2network_queue
               /\ finished_orders' = run_market_maker(BeforeMessage).finished_orders
               /\ \A i \in 1..Len(PlacedInBist2Network) :
                     /\ PlacedInBist2Network[i].msg_type = "E"
                     /\ PlacedInBist2Network[i].bist_time = last_timestamp
               /\ SampleAppended
               /\ PublicBook(book') =
                     PublicBook(process(update_price_table(book), Applied).book)
               /\ last_timestamp' = Applied.bist_time
          ELSE /\ ~sweep'.ran
               /\ bist2network_queue' = bist2network_queue
               /\ finished_orders' = finished_orders
               /\ NoSampleAppended
               /\ last_timestamp' = Applied.bist_time]_vars

\* C32 witness: the message of a new instant added an ask that the agent's
\* live bid crosses; the sweep of that step ran before it and matched nothing
C32_Witness ==
    /\ pc = "run"
    /\ sweep.ran
    /\ Emitted(sweep) = <<>>
    /\ processed # <<>>
    /\ LET m == processed[Len(processed)]
       IN  /\ m.msg_type = "A" /\ m.side = "S"
           /\ DOMAIN sweep.pre.book.ask_prices = {}
           /\ \E i \in 1..Len(test_orders) :
                 /\ test_orders[i].side = "B"
                 /\ test_orders[i].price >= m.price
                 /\ test_orders[i].order_id \notin finished_orders

\* ------------------------------------------------------------------ C33
\* The executes of the last sweep at a price, or for an order
EmittedAt(px) == SelectSeq(Emitted(sweep), LAMBDA e : e.price = px)

EmittedFor(id) == SelectSeq(Emitted(sweep), LAMBDA e : e.order_id = id)

\* The total quantity of a sequence of executes
QuantityOf(s) == SumOver(s, LAMBDA e : e.quantity)

\* The quantity the public book displayed at an ask price when the sweep began
Displayed(px) == Get(sweep.pre.book.ask_prices, px, 0)

\* C33: within one bid sweep the agent's bids share one working copy of the
\* public asks: the quantity executed at an ask price, summed over the bids of
\* the sweep, is at most the quantity displayed there; a bid leaves a level
\* partly consumed only when it is itself filled, so the next bid is offered
\* the residual; and a level is touched only when the levels below it are
\* used up.
C33_BidsShareAskLevels ==
    sweep.ran =>
        \A e \in {Emitted(sweep)[i] : i \in 1..Len(Emitted(sweep))} :
            /\ QuantityOf(EmittedAt(e.price)) <= Displayed(e.price)
            /\ QuantityOf(EmittedAt(e.price)) < Displayed(e.price) =>
                  QuantityOf(EmittedFor(e.order_id)) =
                     Lookup(sweep.pre.test_orders, e.order_id).quantity
            /\ \A px \in DOMAIN sweep.pre.book.ask_prices :
                  px < e.price => QuantityOf(EmittedAt(px)) = Displayed(px)

\* C33 witness: two bids were matched at one ask level in one sweep, the
\* second with what the first had left of it
C33_Witness ==
    /\ sweep.ran
    /\ Len(Emitted(sweep)) >= 2
    /\ Emitted(sweep)[1].order_id # Emitted(sweep)[2].order_id
    /\ Emitted(sweep)[1].price = Emitted(sweep)[2].price
    /\ Emitted(sweep)[2].quantity <
          Lookup(sweep.pre.test_orders, Emitted(sweep)[2].order_id).quantity

\* ------------------------------------------------------------------ C34
\* The position of an order id in a sequence of orders
PlaceOf(orders, id) == CHOOSE i \in 1..Len(orders) : orders[i].order_id = id

\* The bid was not matched in full by the last sweep
LeftOpen(bid) == QuantityOf(EmittedFor(bid.order_id)) < bid.quantity

\* C34: the bid sweep takes the live bids in descending order of their limit,
\* the best bid first against the best ask, and ends at the first ask level
\* above the limit of the bid in hand: no execute is priced above its bid's
\* limit, no bid after one left open is matched, and the bids left open stay
\* in test_orders and out of finished_orders, live for the next sweep.
C34_SweepStopsAtFirstMiss ==
    sweep.ran =>
        LET bids == LiveSorted(sweep, "B")
            asks == sorted_asks(sweep.pre.book)
            msgs == Emitted(sweep)
        IN  /\ \A i, j \in 1..Len(bids) : i < j => bids[i].price >= bids[j].price
            /\ \A i, j \in 1..Len(msgs) :
                  i < j => PlaceOf(bids, msgs[i].order_id) <= PlaceOf(bids, msgs[j].order_id)
            /\ (bids # <<>> /\ asks # <<>> /\ bids[1].price >= asks[Len(asks)][1]) =>
                  /\ msgs # <<>>
                  /\ msgs[1].order_id = bids[1].order_id
                  /\ msgs[1].price = asks[Len(asks)][1]
            /\ \A i \in 1..Len(msgs) :
                  /\ HasKey(bids, msgs[i].order_id)
                  /\ msgs[i].price <= Lookup(bids, msgs[i].order_id).price
            /\ \A i, j \in 1..Len(bids) :
                  (i < j /\ LeftOpen(bids[i])) => EmittedFor(bids[j].order_id) = <<>>
            /\ \A i \in 1..Len(bids) :
                  LeftOpen(bids[i]) =>
                      /\ HasKey(sweep.post.test_orders, bids[i].order_id)
                      /\ bids[i].order_id \notin sweep.post.finished_orders
                      /\ HasKey(LiveOfSide(sweep.post, "B"), bids[i].order_id)
            /\ sweep.post.book.ask_prices = sweep.pre.book.ask_prices

\* C34 witness: a sweep matched its best bid, met an ask level above that
\* bid's limit and left it and a bid with a lower limit open
C34_Witness ==
    /\ sweep.ran
    /\ LET bids == LiveSorted(sweep, "B")
       IN  /\ Len(bids) = 2
           /\ bids[1].price > bids[2].price
           /\ EmittedFor(bids[1].order_id) # <<>>
           /\ LeftOpen(bids[1])
           /\ \E px \in DOMAIN sweep.pre.book.ask_prices : px > bids[1].price
           /\ EmittedFor(bids[2].order_id) = <<>>
           /\ HasKey(LiveOfSide(sweep.post, "B"), bids[2].order_id)

\* ------------------------------------------------------------------ C35
\* The step that delivers an execute for an order that rests in test_orders
DeliversExecute ==
    /\ DispatchesBist2Network
    /\ Head(bist2network_queue).msg_type = "E"
    /\ HasKey(test_orders, Head(bist2network_queue).order_id)

\* C35: the delivery of an execute for the resting test order r settles
\* q = min(r.quantity, msg.quantity): for side B held_money falls by r.price*q,
\* stock rises by q and money rises by (r.price - msg.price)*q; for side S
\* money rises by msg.price*q and held_stock falls by q; and r moves from
\* test_orders to finished_orders when q is all it had left, and stays with
\* its quantity reduced by q otherwise.
C35_ExecuteSettles ==
    [][DeliversExecute =>
          LET msg == Head(bist2network_queue)
              r == Lookup(test_orders, msg.order_id)
              q == Min(r.quantity, msg.quantity)
          IN  /\ msg.side = "B" =>
                    /\ balance'.held_money = balance.held_money - r.price * q
                    /\ balance'.stock = balance.stock + q
                    /\ balance'.money = balance.money + (r.price - msg.price) * q
                    /\ balance'.held_stock = balance.held_stock
              /\ msg.side = "S" =>
                    /\ balance'.money = balance.money + msg.price * q
                    /\ balance'.held_stock = balance.held_stock - q
                    /\ balance'.stock = balance.stock
                    /\ balance'.held_money = balance.held_money
              /\ IF q = r.quantity
                 THEN /\ ~HasKey(test_orders', msg.order_id)
                      /\ finished_orders' = finished_orders \cup {msg.order_id}
                 ELSE /\ HasKey(test_orders', msg.order_id)
                      /\ Lookup(test_orders', msg.order_id) =
                            [r EXCEPT !.quantity = r.quantity - q]
                      /\ finished_orders' = finished_orders]_vars

\* C35 witness: an execute for a part of a resting sell order was delivered
\* at a price above 1: the order stays with the rest, held_stock holds the
\* rest and the proceeds are in the free money
C35_Witness ==
    /\ pc = "run"
    /\ Len(test_timeline) = 2
    /\ test_timeline[2][1] = "E"
    /\ test_timeline[2][2] = "S"
    /\ test_timeline[2][3] > 1
    /\ HasKey(test_orders, test_timeline[2][5])
    /\ Lookup(test_orders, test_timeline[2][5]).quantity = test_timeline[1][4] - test_timeline[2][4]
    /\ balance.held_stock = Lookup(test_orders, test_timeline[2][5]).quantity
    /\ balance.money = SweepMoney - OrderCost + test_timeline[2][3] * test_timeline[2][4]

\* ------------------------------------------------------------------ C36
\* The step that gives a historical execute to the book
ProcessesExecute ==
    /\ processed' # processed
    /\ Applied.msg_type = "E"

\* The price map of a side of a book
SideOf(b, side) == IF side = "B" THEN b.bid_prices ELSE b.ask_prices

\* C36: a historical execute for a resting order takes the message's quantity
\* from the order's remaining quantity, removes the order from the orders map
\* exactly when nothing remains, is recorded with the resting order's price
\* in place of its own, and takes its quantity from the price-map level at
\* that price, removing the level when it reaches zero; the other orders and
\* levels stay.
C36_ExecuteReducesOrderAndLevel ==
    [][ProcessesExecute =>
          LET m == Applied
              r == book.orders[m.order_id]
              left == r.quantity - m.quantity
              levels == SideOf(book, m.side)
              levels1 == SideOf(book', m.side)
          IN  /\ (m.order_id \notin DOMAIN book'.orders) <=> (left = 0)
              /\ left # 0 => book'.orders[m.order_id] = [r EXCEPT !.quantity = left]
              /\ \A id \in DOMAIN book.orders \ {m.order_id} :
                    id \in DOMAIN book'.orders /\ book'.orders[id] = book.orders[id]
              /\ book'.mold_package[Len(book'.mold_package)] =
                    Str([m EXCEPT !.price = r.price])
              /\ IF levels[r.price] - m.quantity = 0
                 THEN r.price \notin DOMAIN levels1
                 ELSE r.price \in DOMAIN levels1
                         /\ levels1[r.price] = levels[r.price] - m.quantity
              /\ \A px \in DOMAIN levels \ {r.price} :
                    px \in DOMAIN levels1 /\ levels1[px] = levels[px]
              /\ SideOf(book', IF m.side = "B" THEN "S" ELSE "B") =
                    SideOf(book, IF m.side = "B" THEN "S" ELSE "B")]_vars

\* C36 witness: an execute took a part of a resting order that shares its
\* level with another order; the order and the level stay, reduced
C36_Witness ==
    /\ processed # <<>>
    /\ LET m == processed[Len(processed)]
       IN  /\ m.msg_type = "E"
           /\ m.quantity > 0
           /\ m.price = 0
           /\ m.order_id \in DOMAIN book.orders
           /\ book.orders[m.order_id].quantity > 0
           /\ SideOf(book, m.side)[book.orders[m.order_id].price] >
                 book.orders[m.order_id].quantity
           /\ book.mold_package[Len(book.mold_package)][3] = book.orders[m.order_id].price

\* ------------------------------------------------------------------ C37
\* The ids of the adds the accountant has been given
AddedIds == {test_timeline[i][5] : i \in {j \in 1..Len(test_timeline) : test_timeline[j][1] = "A"}}

\* The total quantity of the executes the sweeps have emitted for an id:
\* those delivered and those still in bist2network
ExecutedFor(id) ==
    SumOver(TimelineOf("E", id), EntryQuantity) + QuantityOf(ExecutesInTransit(id))

\* C37: for every test order the quantities of all the executes the sweeps of
\* a run have emitted for its id add up to at most the quantity the order was
\* admitted with.
C37_ExecutesWithinAdmitted ==
    \A id \in AddedIds : ExecutedFor(id) <= TimelineOf("A", id)[1][4]

\* ------------------------------------------------------------------ C38
\* C38: every execute delivered from bist2network names an id that is a key
\* of test_orders when it is delivered, so the accountant never aborts the
\* run of an agent that keeps to its interface.
C38_DeliveredExecutesKnown ==
    [][(DispatchesBist2Network /\ Head(bist2network_queue).msg_type = "E")
          => HasKey(test_orders, Head(bist2network_queue).order_id)]_vars

\* ------------------------------------------------------------------ C39
\* The agent's money and stock, free and held together
TotalMoney(bal) == bal.money + bal.held_money

TotalStock(bal) == bal.stock + bal.held_stock

TotalsKept ==
    /\ TotalMoney(balance') = TotalMoney(balance)
    /\ TotalStock(balance') = TotalStock(balance)

\* The step in which the agent is charged the fee of the orders it returned
PaysFee ==
    /\ orders_submitted' > orders_submitted
    /\ TotalMoney(balance') =
          TotalMoney(balance) - OrderCost * (orders_submitted' - orders_submitted)
    /\ TotalStock(balance') = TotalStock(balance)

\* C39: execute_add, execute_cancel and execute_delete only move value between
\* free and held: they keep money + held_money and stock + held_stock, and a
\* dropped add and a cancel keep every balance field; the two totals change
\* only by the fee per order and by the delivery of an execute.
C39_OnlyFeeAndExecuteChangeTotals ==
    [][/\ DispatchesNetwork2Bist =>
             /\ TotalsKept
             /\ Head(network2bist_queue).msg_type = "C" => balance' = balance
             /\ (Head(network2bist_queue).msg_type = "A"
                   /\ ~HasKey(test_orders', Head(network2bist_queue).order_id))
                   => balance' = balance
       /\ (DispatchesBist2Network /\ Head(bist2network_queue).msg_type = "D")
             => TotalsKept
       /\ ~TotalsKept =>
             \/ PaysFee
             \/ DispatchesBist2Network /\ Head(bist2network_queue).msg_type = "E"]_vars

\* C39 witness: a sell order was admitted and cancelled and its delete was
\* delivered: the stock is free again and the money is short of the fees only
C39_Witness ==
    /\ pc = "run"
    /\ test_timeline # <<>>
    /\ test_timeline[Len(test_timeline)][1] = "D"
    /\ test_timeline[Len(test_timeline)][2] = "S"
    /\ TimelineOf("A", test_timeline[Len(test_timeline)][5]) # <<>>
    /\ TimelineOf("C", test_timeline[Len(test_timeline)][5]) # <<>>
    /\ balance.held_stock = 0
    /\ balance.stock = InitialStock
    /\ TotalMoney(balance) = InitialMoney - OrderCost * orders_submitted

====
